---- MODULE Spec2Model ----
(***************************************************************************)
(* The write path and commit pipeline of the TSDB repository:              *)
(* tsdbInsertData / tdInsertRowToTable (writers), tsdbTriggerCommit (the   *)
(* freeze), tsdbCommitData / tsdbCommitToFile (the background commit task) *)
(* and the file directory of tsdbFile.c.                                   *)
(***************************************************************************)
EXTENDS Integers, Sequences, FiniteSets, TLC

(***************************************************************************)
(* Bounds of the model.                                                    *)
(***************************************************************************)
\* config.maxTables of the modelled repository (tids are 0..NumTables-1)
NumTables == 2
\* calls the upper layer makes on the handle, all together
MaxCalls == 3
\* the largest partition id given to the file directory
MaxFid == 3
\* rows the cache arena holds before an allocation fails (maxCacheSize)
CacheNodes == 2
\* calls of tsdbInsertData that are given a whole submit message
MaxMsgs == 2

(***************************************************************************)
(* Program constants.                                                      *)
(***************************************************************************)
\* config.daysPerFile: TSDB_MIN_DAYS_PER_FILE
DaysPerFile == 1
\* tsMsPerDay[TSDB_PRECISION_MILLI], the default precision
MsPerDay == 86400000
\* INT64_MAX, the initial keyFirst of a memtable; written as the largest
\* integer the model's keys are compared with
KeyMax == 2147483647

\* lines 23-44: the bounds and the defaults of the options
TSDB_PRECISION_MILLI == 0
TSDB_PRECISION_MICRO == 1
TSDB_PRECISION_NANO == 2
TSDB_DEFAULT_PRECISION == TSDB_PRECISION_MILLI
TSDB_MIN_TABLES == 10
TSDB_MAX_TABLES == 100000
TSDB_DEFAULT_TABLES == 1000
TSDB_DEFAULT_DAYS_PER_FILE == 10
TSDB_MIN_DAYS_PER_FILE == 1
TSDB_MAX_DAYS_PER_FILE == 60
TSDB_DEFAULT_MIN_ROW_FBLOCK == 100
TSDB_MIN_MIN_ROW_FBLOCK == 10
TSDB_MAX_MIN_ROW_FBLOCK == 1000
TSDB_DEFAULT_MAX_ROW_FBLOCK == 4096
TSDB_MIN_MAX_ROW_FBLOCK == 200
TSDB_MAX_MAX_ROW_FBLOCK == 10000
TSDB_DEFAULT_KEEP == 3650
TSDB_MIN_KEEP == 1
TSDB_MAX_KEEP == 2147483647
TSDB_DEFAULT_CACHE_SIZE == 16 * 1024 * 1024
TSDB_MIN_CACHE_SIZE == 4 * 1024 * 1024
TSDB_MAX_CACHE_SIZE == 1024 * 1024 * 1024

Tids == 0 .. (NumTables - 1)
\* timestamps the writer inserts: one of partition 0, one of partition 1
Keys == {1, MsPerDay}
\* the payload of a row names the call that inserted it: 1, 2, ...
Payloads == 1 .. MaxCalls
\* the threads of the upper layer: one writer, two callers of tsdbTriggerCommit
Writers == {1}
Callers == {1, 2}
Tasks == 1 .. MaxCalls
\* outcomes of pthread_mutex_lock applied to the repository handle
MutexModes == {"excl", "none", "hang"}

TSDB_FILE_TYPE_HEAD == 0
TSDB_FILE_TYPE_DATA == 1
TSDB_FILE_TYPE_LAST == 2
tsdbFileSuffix == << ".head", ".data", ".last" >>

VARIABLES
    commit,      \* pRepo->commit
    mutexMode,   \* what locking the handle does in this run
    mutex,       \* the thread inside the critical section, or "free"
    tables,      \* pMeta->tables[tid]: [mem, imem]
    tsdbCache,   \* pRepo->tsdbCache: [mem, imem, curBlock]
    tsdbFileH,   \* pRepo->tsdbFileH: [numOfFGroups, maxFGroups, fGroup]
    disk,        \* the files of the data directory, by name
    wr,          \* each writer's position and locals in tdInsertRowToTable
    tc,          \* each caller's position in tsdbTriggerCommit
    task,        \* each commit thread's position and locals in tsdbCommitData
    nextId,      \* the next fresh object identity (SMemTable, cache generation)
    nInserts,    \* calls of tsdbInsertData made
    nTriggers,   \* calls of tsdbTriggerCommit made
    crashed,     \* the process died (NULL dereference, failed assert)
    state,       \* pRepo->state; "NONE" while there is no handle
    dangling,    \* the pointers of the handle that point to nothing valid
    env,         \* the entries of rootDir
    api,         \* the last call of the life cycle: [op, arg, check, ret]
    pCfg,        \* the caller's STsdbCfg
    nLife,       \* calls of tsdbCloseRepo, tsdbDropRepo, tsdbConfigRepo made
    meta,        \* pMeta->tables[tid]: the uid of the table in the slot, 0 for none
    submit       \* the SSubmitMsg of the last call of tsdbInsertData made as one step

vars == << commit, mutexMode, mutex, tables, tsdbCache, tsdbFileH, disk,
           wr, tc, task, nextId, nInserts, nTriggers, crashed,
           state, dangling, env, api, pCfg, nLife, meta, submit >>

life == << state, dangling, env, api, pCfg, nLife, meta, submit >>

\* calls the upper layer has made on the handle
CallsMade == nInserts + nTriggers + nLife

(***************************************************************************)
(* Values.                                                                 *)
(***************************************************************************)
\* the NULL pointer: an object whose identity is 0
NULL == [id |-> 0]
IsNull(p) == p.id = 0

Min(S) == CHOOSE x \in S : \A y \in S : x <= y
Max(S) == CHOOSE x \in S : \A y \in S : x >= y

\* the rows of a skip list, as the forward iterator meets them
RECURSIVE SortedRows(_)
SortedRows(rows) ==
    IF DOMAIN rows = {} THEN << >>
    ELSE LET k == Min(DOMAIN rows)
         IN  << << k, rows[k] >> >>
             \o SortedRows([x \in (DOMAIN rows) \ {k} |-> rows[x]])

EmptyRows == [x \in {} |-> 0]

(***************************************************************************)
(* The repository mutex.  tsdbLockRepo hands the repository handle itself  *)
(* to pthread_mutex_lock, not &pRepo->mutex: the call works on bytes that  *)
(* were never initialised as a mutex, which is undefined.  mutexMode is    *)
(* the outcome of a run: the call excludes other threads ("excl"), returns *)
(* an error without excluding anybody ("none"), or never returns ("hang"). *)
(***************************************************************************)
Free == << "free", 0 >>

\* pthread_mutex_lock returns: at once when it excludes nobody, when the
\* lock is free when it does; never when it hangs
LockReturns == mutexMode # "hang" /\ (mutexMode = "excl" => mutex = Free)

\* the mutex after tsdbLockRepo by thread th returned
tsdbLockRepo(m, th) == IF mutexMode = "excl" THEN th ELSE m

\* the mutex after tsdbUnLockRepo by thread th
tsdbUnLockRepo(m, th) == IF mutexMode = "excl" THEN Free ELSE m

(***************************************************************************)
(* Memtables (SMemTable) and the skip list of each.                        *)
(***************************************************************************)
\* calloc of an SMemTable, tSkipListCreate, keyFirst = INT64_MAX, keyLast = 0
NewMemTable(id) ==
    [id |-> id, rows |-> EmptyRows, keyFirst |-> KeyMax, keyLast |-> 0,
     numOfPoints |-> 0]

\* tSkipListPut: a node whose key is in the list replaces that row
tSkipListPut(rows, key, val) ==
    [x \in (DOMAIN rows) \cup {key} |-> IF x = key THEN val ELSE rows[x]]

tSkipListGetSize(rows) == Cardinality(DOMAIN rows)

\* lines 739-743 of tdInsertRowToTable, applied to the memtable m
PutRow(m, key, val) ==
    LET r == tSkipListPut(m.rows, key, val)
    IN  [m EXCEPT !.rows = r,
                  !.keyLast = IF key > m.keyLast THEN key ELSE m.keyLast,
                  !.keyFirst = IF key < m.keyFirst THEN key ELSE m.keyFirst,
                  !.numOfPoints = tSkipListGetSize(r)]

(***************************************************************************)
(* The cache: a generation is [id, keyFirst, keyLast].                     *)
(***************************************************************************)
\* the nodes allocated from a generation
GenSize(g) == IF IsNull(g) THEN 0 ELSE g.size

\* the arena is capped: the active and the frozen generation together hold
\* CacheNodes nodes at most, and tsdbAllocFromCache returns NULL beyond that
CacheIsFull(cache) == GenSize(cache.mem) + GenSize(cache.imem) >= CacheNodes

\* tsdbAllocFromCache that returned a node: the active generation is made on
\* the first allocation after a freeze, tracks the keys allocated from it
\* and counts the nodes
tsdbAllocFromCache(cache, key) ==
    LET g == IF IsNull(cache.mem)
             THEN [id |-> 1, keyFirst |-> KeyMax, keyLast |-> 0, size |-> 0]
             ELSE cache.mem
    IN  [cache EXCEPT
            !.mem = [g EXCEPT !.keyFirst = IF key < g.keyFirst THEN key ELSE g.keyFirst,
                              !.keyLast = IF key > g.keyLast THEN key ELSE g.keyLast,
                              !.size = @ + 1],
            !.curBlock = 1]

(***************************************************************************)
(* Iterators over a skip list: the rows from the current one on.           *)
(***************************************************************************)
NullIter == [valid |-> FALSE, rest |-> << >>]
tSkipListCreateIter(rows) == [valid |-> TRUE, rest |-> SortedRows(rows)]
\* the current node, << >> when there is none
tSkipListIterGet(it) == IF it.rest = << >> THEN << >> ELSE Head(it.rest)
dataRowKey(row) == row[1]

\* C12, mutant: the lower end of the window is not tested
tsdbHasDataInRange_NoLower(pIter, minKey, maxKey) ==
    IF ~pIter.valid THEN FALSE
    ELSE IF tSkipListIterGet(pIter) = << >> THEN FALSE
    ELSE dataRowKey(tSkipListIterGet(pIter)) <= maxKey

\* a NULL iterator, or one past its last node, has no data in any range
tsdbHasDataInRange(pIter, minKey, maxKey) ==
    IF ~pIter.valid THEN FALSE
    ELSE IF tSkipListIterGet(pIter) = << >> THEN FALSE
    ELSE /\ dataRowKey(tSkipListIterGet(pIter)) >= minKey
         /\ dataRowKey(tSkipListIterGet(pIter)) <= maxKey

tsdbHasDataToCommit(iters, minKey, maxKey) ==
    \E i \in Tids : tsdbHasDataInRange(iters[i], minKey, maxKey)

NoIters == [t \in Tids |-> NullIter]

\* tsdbCreateTableIters: a cursor on the first row of every frozen memtable
tsdbCreateTableIters(tbls) ==
    [t \in Tids |-> IF IsNull(tbls[t].imem) THEN NullIter
                    ELSE tSkipListCreateIter(tbls[t].imem.rows)]

\* the first tSkipListIterNext of a cursor fails: assert(false)
IterAssertFails(tbls) ==
    \E t \in Tids : ~IsNull(tbls[t].imem) /\ DOMAIN tbls[t].imem.rows = {}

(***************************************************************************)
(* Partitions.                                                             *)
(***************************************************************************)
tsdbGetKeyFileId(key) == (key \div MsPerDay) \div DaysPerFile

tsdbGetKeyRangeOfFileId(fileId) ==
    LET minKey == fileId * DaysPerFile * MsPerDay
    IN  [minKey |-> minKey, maxKey |-> minKey + DaysPerFile * MsPerDay - 1]

(***************************************************************************)
(* Files (tsdbFile.c).  A file is named << fid, suffix >>; its content is  *)
(* the SCompIdx array (the .head and .h files only) and the blocks         *)
(* written to it.                                                          *)
(***************************************************************************)
ZeroIdx ==
    [offset |-> 0, len |-> 0, hasLast |-> 0, maxKey |-> 0, numOfSuperBlocks |-> 0]

\* tsdbWriteHeadFileIdx (a zeroed SCompIdx[maxTables]) and tsdbWriteFileHead
NewFile(writeHeader) ==
    [idx |-> IF writeHeader THEN [t \in Tids |-> ZeroIdx] ELSE << >>,
     blocks |-> << >>]

\* tsdbCreateFile: fails on a name that exists; [ret, disk, fd]
tsdbCreateFile(dsk, fileId, suffix, writeHeader, toClose) ==
    LET fname == << fileId, suffix >>
    IN  IF fname \in DOMAIN dsk
        THEN [ret |-> -1, disk |-> dsk, fd |-> FALSE]
        ELSE [ret |-> 0,
              disk |-> [n \in (DOMAIN dsk) \cup {fname} |->
                           IF n = fname THEN NewFile(writeHeader) ELSE dsk[n]],
              fd |-> ~toClose]

\* the range of int
INT_MAX == 2147483647
INT_MIN == -INT_MAX - 1

\* a - b is outside the range of int
Overflows32(a, b) ==
    \/ a >= 0 /\ b < 0 /\ a > INT_MAX + b
    \/ a < 0 /\ b > 0 /\ a < INT_MIN + b

\* a - b in int arithmetic: the low 32 bits of the difference, as two's
\* complement (the difference -+ 2^32 when it is outside the range)
Sub32(a, b) ==
    IF a >= 0 /\ b < 0 /\ a > INT_MAX + b THEN (a + INT_MIN) + (INT_MIN - b)
    ELSE IF a < 0 /\ b > 0 /\ a < INT_MIN + b THEN (a - INT_MIN) + ((INT_MAX - b) + 1)
    ELSE a - b

compFGroup(arg1, arg2) == Sub32(arg1.fileId, arg2.fileId)

compFGroupKey(key, fgroup) == Sub32(key, fgroup.fileId)

\* bsearch of key in base[l..u) by compFGroupKey (l, u count from 0): the
\* index of the element found (from 1), 0 for NULL
RECURSIVE bsearch(_, _, _, _)
bsearch(key, base, l, u) ==
    IF l >= u THEN 0
    ELSE LET idx == (l + u) \div 2
             cmp == compFGroupKey(key, base[idx + 1])
         IN  IF cmp < 0 THEN bsearch(key, base, l, idx)
             ELSE IF cmp > 0 THEN bsearch(key, base, idx + 1, u)
             ELSE idx + 1

\* the group g put into the sorted groups at the place compFGroup gives it,
\* looked for from place p downwards
RECURSIVE PlaceFGroup(_, _, _)
PlaceFGroup(sorted, g, p) ==
    IF p >= 1 /\ compFGroup(sorted[p], g) > 0
    THEN PlaceFGroup(sorted, g, p - 1)
    ELSE SubSeq(sorted, 1, p) \o << g >> \o SubSeq(sorted, p + 1, Len(sorted))

\* qsort of fGroup[0..numOfFGroups) by compFGroup
RECURSIVE SortFGroups(_)
SortFGroups(groups) ==
    IF Len(groups) <= 1 THEN groups
    ELSE PlaceFGroup(SortFGroups(SubSeq(groups, 1, Len(groups) - 1)),
                     groups[Len(groups)], Len(groups) - 1)

\* tsdbSearchFGroup: the index of fid's group in fGroup, 0 for NULL
tsdbSearchFGroup(fileH, fid) ==
    LET n == Len(fileH.fGroup)
    IN  IF n = 0 \/ fid < fileH.fGroup[1].fileId \/ fid > fileH.fGroup[n].fileId
        THEN 0
        ELSE bsearch(fid, fileH.fGroup, 0, n)

\* the loop of tsdbCreateFGroup over the three file types, from type on:
\* the first file that cannot be created ends it, the files made stay
RECURSIVE CreateGroupFiles(_, _, _)
CreateGroupFiles(dsk, fid, type) ==
    IF type > TSDB_FILE_TYPE_LAST THEN [ret |-> 0, disk |-> dsk]
    ELSE LET r == tsdbCreateFile(dsk, fid, tsdbFileSuffix[type + 1],
                                 type = TSDB_FILE_TYPE_HEAD, TRUE)
         IN  IF r.ret < 0 THEN [ret |-> -1, disk |-> dsk]
             ELSE CreateGroupFiles(r.disk, fid, type + 1)

\* C30, mutant: the group is registered although one of its files could
\* not be created
tsdbCreateFGroup_IgnoreFileError(fileH, dsk, fid) ==
    IF Len(fileH.fGroup) >= fileH.maxFGroups
    THEN [ret |-> -1, fileH |-> fileH, disk |-> dsk]
    ELSE IF tsdbSearchFGroup(fileH, fid) = 0
    THEN LET r == CreateGroupFiles(dsk, fid, TSDB_FILE_TYPE_HEAD)
         IN  [ret |-> r.ret,
              fileH |-> [fileH EXCEPT !.fGroup =
                  SortFGroups(Append(fileH.fGroup,
                                     [fileId |-> fid, opened |-> FALSE]))],
              disk |-> r.disk]
    ELSE [ret |-> 0, fileH |-> fileH, disk |-> dsk]

\* tsdbCreateFGroup: [ret, fileH, disk]
tsdbCreateFGroup(fileH, dsk, fid) ==
    IF Len(fileH.fGroup) >= fileH.maxFGroups
    THEN [ret |-> -1, fileH |-> fileH, disk |-> dsk]
    ELSE IF tsdbSearchFGroup(fileH, fid) = 0
    THEN LET r == CreateGroupFiles(dsk, fid, TSDB_FILE_TYPE_HEAD)
         IN  IF r.ret < 0
             THEN [ret |-> -1, fileH |-> fileH, disk |-> r.disk]
             ELSE [ret |-> 0,
                   fileH |-> [fileH EXCEPT !.fGroup =
                       SortFGroups(Append(fileH.fGroup,
                                          [fileId |-> fid, opened |-> FALSE]))],
                   disk |-> r.disk]
    ELSE [ret |-> 0, fileH |-> fileH, disk |-> dsk]

\* tsdbOpenFilesForCommit: [pGroup, fileH]; pGroup is 0 for NULL.  tsdbOpenFile
\* of a file that is open fails and leaves it open
tsdbOpenFilesForCommit(fileH, fid) ==
    LET g == tsdbSearchFGroup(fileH, fid)
    IN  IF g = 0 THEN [pGroup |-> 0, fileH |-> fileH]
        ELSE [pGroup |-> g,
              fileH |-> [fileH EXCEPT !.fGroup[g].opened = TRUE]]

\* sendfile(out_fd, in_fd, NULL, count): count entries of the file in are
\* appended to the file out; [ret, disk].  It fails with EBADF and copies
\* nothing when in_fd is not open for reading.
sendfile(dsk, out, in, inFlag, count) ==
    IF inFlag = "O_WRONLY" \/ out \notin DOMAIN dsk \/ in \notin DOMAIN dsk
    THEN [ret |-> -1, disk |-> dsk]
    ELSE [ret |-> count,
          disk |-> [dsk EXCEPT ![out].blocks = @ \o SubSeq(dsk[in].blocks, 1, count)]]

\* tsdbLoadCompIdx: the SCompIdx array of the .head file of fid's group
tsdbLoadCompIdx(dsk, fid) ==
    IF << fid, ".head" >> \in DOMAIN dsk THEN dsk[<< fid, ".head" >>].idx
    ELSE [t \in Tids |-> ZeroIdx]

\* lines 915-938, for the tables from tid on: [disk].  A table without a
\* row in the window that has old data (pIdx->len # 0) is carried forward:
\* with hasLast its SCompBlock part is loaded and nothing is copied (the
\* copy is commented out); without, line 933 calls sendfile with the old
\* .head as out_fd and hFile.fd, which tsdbCreateFile opened O_WRONLY, as
\* in_fd.  A table with rows in the window is passed over (the body of its
\* case is empty).
RECURSIVE CarryForward(_, _, _, _, _, _)
CarryForward(dsk, fid, iters, pIndices, range, tid) ==
    IF tid >= NumTables THEN dsk
    ELSE IF /\ ~tsdbHasDataInRange(iters[tid], range.minKey, range.maxKey)
            /\ pIndices[tid].len # 0
            /\ pIndices[tid].hasLast = 0
         THEN CarryForward(sendfile(dsk, << fid, ".head" >>, << fid, ".h" >>,
                                    "O_WRONLY", pIndices[tid].len).disk,
                           fid, iters, pIndices, range, tid + 1)
         ELSE CarryForward(dsk, fid, iters, pIndices, range, tid + 1)

\* C8, mutant: the partition is not skipped when no cursor has a row in it
tsdbCommitToFile_NoSkip(fileH, dsk, fid, iters) ==
    LET cg == tsdbCreateFGroup(fileH, dsk, fid)
        og == tsdbOpenFilesForCommit(cg.fileH, fid)
        hf == tsdbCreateFile(cg.disk, fid, ".h", TRUE, FALSE)
        lf == tsdbCreateFile(hf.disk, fid, ".l", FALSE, FALSE)
    IN  [fileH |-> og.fileH, disk |-> lf.disk, crash |-> og.pGroup = 0,
         failed |-> cg.ret < 0 \/ og.pGroup = 0 \/ hf.ret < 0 \/ lf.ret < 0]

\* tsdbCommitToFile(pRepo, fid, iters, pCols): [fileH, disk, crash, failed].
\* The loop over the tables advances no cursor and writes no row; no
\* SCompIdx is written and nothing is renamed or closed at the end.
\* failed: one of the calls at lines 899-905 returned an error; the function
\* goes on and returns 0 all the same.
tsdbCommitToFile(fileH, dsk, fid, iters) ==
    LET range == tsdbGetKeyRangeOfFileId(fid)
        cg == tsdbCreateFGroup(fileH, dsk, fid)
        og == tsdbOpenFilesForCommit(cg.fileH, fid)
        hf == tsdbCreateFile(cg.disk, fid, ".h", TRUE, FALSE)
        lf == tsdbCreateFile(hf.disk, fid, ".l", FALSE, FALSE)
    IN  IF ~tsdbHasDataToCommit(iters, range.minKey, range.maxKey)
        THEN [fileH |-> fileH, disk |-> dsk, crash |-> FALSE, failed |-> FALSE]
        ELSE \* tsdbLoadCompIdx(pGroup, ...) reads through pGroup
             [fileH |-> og.fileH,
              disk |-> IF og.pGroup = 0 THEN lf.disk
                       ELSE CarryForward(lf.disk, fid, iters,
                                         tsdbLoadCompIdx(lf.disk, fid), range, 0),
              crash |-> og.pGroup = 0,
              failed |-> cg.ret < 0 \/ og.pGroup = 0 \/ hf.ret < 0 \/ lf.ret < 0]

(***************************************************************************)
(* The configuration (STsdbCfg) and its validation.                        *)
(***************************************************************************)
\* tsdbSetDefaultCfg: every option unset
UnsetCfg ==
    [precision |-> -1, tsdbId |-> 0, maxTables |-> -1, daysPerFile |-> -1,
     minRowsPerFileBlock |-> -1, maxRowsPerFileBlock |-> -1, keep |-> -1,
     maxCacheSize |-> -1]

IS_VALID_PRECISION(precision) ==
    precision >= TSDB_PRECISION_MILLI /\ precision <= TSDB_PRECISION_NANO

\* C19, mutant: the upper bound of an option is not tested
CheckOption_NoUpper(cfg, opt, def, lo, hi) ==
    IF cfg[opt] = -1
    THEN [ok |-> TRUE, cfg |-> [cfg EXCEPT ![opt] = def]]
    ELSE [ok |-> ~(cfg[opt] < lo), cfg |-> cfg]

\* one option of tsdbCheckAndSetDefaultCfg: -1 takes the default, any
\* other value is tested against the bounds; [ok, cfg]
CheckOption(cfg, opt, def, lo, hi) ==
    IF cfg[opt] = -1
    THEN [ok |-> TRUE, cfg |-> [cfg EXCEPT ![opt] = def]]
    ELSE [ok |-> ~(cfg[opt] < lo \/ cfg[opt] > hi), cfg |-> cfg]

\* tsdbCheckAndSetDefaultCfg(pCfg): [ret, cfg].  The struct is written in
\* place, option by option, up to the check that fails.
tsdbCheckAndSetDefaultCfg(cfg) ==
    LET p1 == IF cfg.precision = -1
              THEN [ok |-> TRUE, cfg |-> [cfg EXCEPT !.precision = TSDB_DEFAULT_PRECISION]]
              ELSE [ok |-> IS_VALID_PRECISION(cfg.precision), cfg |-> cfg]
        p2 == [ok |-> ~(p1.cfg.tsdbId < 0), cfg |-> p1.cfg]
        p3 == CheckOption(p2.cfg, "maxTables", TSDB_DEFAULT_TABLES,
                          TSDB_MIN_TABLES, TSDB_MAX_TABLES)
        p4 == CheckOption(p3.cfg, "daysPerFile", TSDB_DEFAULT_DAYS_PER_FILE,
                          TSDB_MIN_DAYS_PER_FILE, TSDB_MAX_DAYS_PER_FILE)
        p5 == CheckOption(p4.cfg, "minRowsPerFileBlock", TSDB_DEFAULT_MIN_ROW_FBLOCK,
                          TSDB_MIN_MIN_ROW_FBLOCK, TSDB_MAX_MIN_ROW_FBLOCK)
        p6 == CheckOption(p5.cfg, "maxRowsPerFileBlock", TSDB_DEFAULT_MAX_ROW_FBLOCK,
                          TSDB_MIN_MAX_ROW_FBLOCK, TSDB_MAX_MAX_ROW_FBLOCK)
        p7 == [ok |-> ~(p6.cfg.minRowsPerFileBlock > p6.cfg.maxRowsPerFileBlock),
               cfg |-> p6.cfg]
        p8 == CheckOption(p7.cfg, "keep", TSDB_DEFAULT_KEEP, TSDB_MIN_KEEP, TSDB_MAX_KEEP)
        p9 == CheckOption(p8.cfg, "maxCacheSize", TSDB_DEFAULT_CACHE_SIZE,
                          TSDB_MIN_CACHE_SIZE, TSDB_MAX_CACHE_SIZE)
    IN  IF ~p1.ok THEN [ret |-> -1, cfg |-> p1.cfg]
        ELSE IF ~p2.ok THEN [ret |-> -1, cfg |-> p2.cfg]
        ELSE IF ~p3.ok THEN [ret |-> -1, cfg |-> p3.cfg]
        ELSE IF ~p4.ok THEN [ret |-> -1, cfg |-> p4.cfg]
        ELSE IF ~p5.ok THEN [ret |-> -1, cfg |-> p5.cfg]
        ELSE IF ~p6.ok THEN [ret |-> -1, cfg |-> p6.cfg]
        ELSE IF ~p7.ok THEN [ret |-> -1, cfg |-> p7.cfg]
        ELSE IF ~p8.ok THEN [ret |-> -1, cfg |-> p8.cfg]
        ELSE IF ~p9.ok THEN [ret |-> -1, cfg |-> p9.cfg]
        ELSE [ret |-> 0, cfg |-> p9.cfg]

\* the configuration of the modelled repository: the defaults
DefaultCfg == tsdbCheckAndSetDefaultCfg(UnsetCfg).cfg

\* the entries of rootDir that tsdbSetRepoEnv makes
TSDB_CFG_FILE_NAME == "CONFIG"
TSDB_DATA_DIR_NAME == "data"

\* no call of the life cycle has been made
NoCall == [op |-> "none", arg |-> 0, check |-> 0, ret |-> 0]

(***************************************************************************)
(* The state after tsdbCreateRepo.  The handle is malloc'ed and commit is  *)
(* never assigned before the first tsdbTriggerCommit reads it: it starts   *)
(* as whatever the allocation holds, zero or not.                          *)
(***************************************************************************)
\* every slot of the table directory holds a table: table tid has uid tid + 1
AllTables == [t \in Tids |-> t + 1]

\* the handle and what hangs on it
InitHandle ==
    /\ commit \in {0, 1}
    /\ mutexMode \in MutexModes
    /\ mutex = Free
    /\ tables = [t \in Tids |-> [mem |-> NULL, imem |-> NULL]]
    /\ tsdbCache = [mem |-> NULL, imem |-> NULL, curBlock |-> 0]
    /\ wr = [w \in Writers |-> [pc |-> "idle", tid |-> 0, key |-> 0, val |-> 0, pMem |-> 0]]
    /\ tc = [c \in Callers |-> [pc |-> "idle", ret |-> 0]]
    /\ task = [c \in Tasks |-> [pc |-> "none", iters |-> NoIters, fid |-> 0, efid |-> 0,
                               failed |-> FALSE]]
    /\ nextId = 1
    /\ nInserts = 0
    /\ nTriggers = 0
    /\ crashed = FALSE

\* tsdbInitFileH on the data directory mkdir has just made
InitFileH ==
    /\ tsdbFileH = [maxFGroups |-> NumTables, fGroup |-> << >>]
    /\ disk = << >>

Init ==
    /\ InitHandle
    /\ InitFileH
    /\ state = "ACTIVE"
    /\ dangling = {}
    /\ env = {TSDB_CFG_FILE_NAME, TSDB_DATA_DIR_NAME}
    /\ api = [op |-> "create", arg |-> 0, check |-> 0, ret |-> 0]
    /\ pCfg = DefaultCfg
    /\ nLife = 0
    /\ meta = AllTables
    /\ submit = << >>

(***************************************************************************)
(* tsdbInsertData -> tsdbInsertDataToTable -> tdInsertRowToTable, for a    *)
(* submit block of one row.  No step of it takes the repository mutex.     *)
(***************************************************************************)
\* table t has a memtable, or a commit thread holds a cursor on it
TableInUse(t) ==
    \/ ~IsNull(tables[t].mem)
    \/ ~IsNull(tables[t].imem)
    \/ \E n \in Tasks : task[n].iters[t].valid

\* lines 709-715: the first check of pTable->mem.  The tables are
\* interchangeable, so a call writes to a table in use or to the first
\* table that is not.
InsertBegin(w, t, k, v) ==
    /\ ~crashed
    /\ wr[w].pc = "idle"
    /\ state # "NONE"
    /\ CallsMade < MaxCalls
    /\ v = nInserts + 1
    /\ \A u \in Tids : u < t => TableInUse(u)
    /\ nInserts' = nInserts + 1
    /\ IF IsNull(tables[t].mem)
       THEN /\ tables' = [tables EXCEPT ![t].mem = NewMemTable(nextId)]
            /\ nextId' = nextId + 1
       ELSE UNCHANGED << tables, nextId >>
    /\ wr' = [wr EXCEPT ![w] = [pc |-> "alloc", tid |-> t, key |-> k, val |-> v, pMem |-> 0]]
    /\ UNCHANGED << commit, mutexMode, mutex, tsdbCache, tsdbFileH, disk, tc, task,
                    nTriggers, crashed >>
    /\ UNCHANGED life

\* lines 717-729: the node of the row is taken from the cache.  A NULL
\* node is not handled (lines 724-726 are empty): pNode->level is written
\* through it at line 728
InsertAlloc(w) ==
    /\ ~crashed
    /\ wr[w].pc = "alloc"
    /\ IF CacheIsFull(tsdbCache)
       THEN /\ crashed' = TRUE
            /\ UNCHANGED << tsdbCache, wr >>
       ELSE /\ tsdbCache' = tsdbAllocFromCache(tsdbCache, wr[w].key)
            /\ wr' = [wr EXCEPT ![w].pc = "chk2"]
            /\ UNCHANGED crashed
    /\ UNCHANGED << commit, mutexMode, mutex, tables, tsdbFileH, disk, tc, task,
                    nextId, nInserts, nTriggers >>
    /\ UNCHANGED life

\* lines 732-738: the second check of pTable->mem; the pointer is loaded
InsertCheck(w) ==
    LET t == wr[w].tid
    IN  /\ ~crashed
        /\ wr[w].pc = "chk2"
        /\ IF IsNull(tables[t].mem)
           THEN /\ tables' = [tables EXCEPT ![t].mem = NewMemTable(nextId)]
                /\ nextId' = nextId + 1
           ELSE UNCHANGED << tables, nextId >>
        /\ wr' = [wr EXCEPT ![w].pc = "put", ![w].pMem = tables'[t].mem.id]
        /\ UNCHANGED << commit, mutexMode, mutex, tsdbCache, tsdbFileH, disk, tc, task,
                        nInserts, nTriggers, crashed >>
        /\ UNCHANGED life

\* lines 739-746.  pTable->mem is read without a lock while tsdbTriggerCommit
\* may write it: the splice uses the pointer loaded at line 732 or loads it
\* again (reload), and a NULL loaded here is dereferenced.  A memtable that
\* is neither mem nor imem any more was dropped without being freed.
InsertPut(w, reload) ==
    LET t == wr[w].tid
        target == IF reload THEN tables[t].mem.id ELSE wr[w].pMem
    IN  /\ ~crashed
        /\ wr[w].pc = "put"
        /\ IF target = 0
           THEN crashed' = TRUE /\ UNCHANGED tables
           ELSE /\ UNCHANGED crashed
                /\ tables' =
                     IF tables[t].mem.id = target
                     THEN [tables EXCEPT ![t].mem = PutRow(@, wr[w].key, wr[w].val)]
                     ELSE IF tables[t].imem.id = target
                     THEN [tables EXCEPT ![t].imem = PutRow(@, wr[w].key, wr[w].val)]
                     ELSE tables
        /\ wr' = [wr EXCEPT ![w] = [pc |-> "idle", tid |-> 0, key |-> 0, val |-> 0, pMem |-> 0]]
        /\ UNCHANGED << commit, mutexMode, mutex, tsdbCache, tsdbFileH, disk, tc, task,
                        nextId, nInserts, nTriggers >>
        /\ UNCHANGED life

(***************************************************************************)
(* tsdbTriggerCommit.                                                      *)
(***************************************************************************)
\* C1, mutant: the test of the commit flag is lost
CommitInFlight_Never == FALSE

\* line 316: if (pRepo->commit)
CommitInFlight == commit # 0

\* lines 315-318: the lock is taken and commit is read; a commit in flight
\* ends the call with -1.  The callers are interchangeable, so a call is made
\* by the first caller that is not inside one.
TriggerCheck(c) ==
    /\ ~crashed
    /\ tc[c].pc = "idle"
    /\ state # "NONE"
    /\ CallsMade < MaxCalls
    /\ \A d \in Callers : d < c => tc[d].pc # "idle"
    /\ nTriggers' = nTriggers + 1
    /\ LockReturns
    /\ IF CommitInFlight
       THEN /\ mutex' = tsdbUnLockRepo(tsdbLockRepo(mutex, << "caller", c >>), << "caller", c >>)
            /\ tc' = [tc EXCEPT ![c] = [pc |-> "idle", ret |-> -1]]
       ELSE /\ mutex' = tsdbLockRepo(mutex, << "caller", c >>)
            /\ tc' = [tc EXCEPT ![c].pc = "freeze"]
    /\ UNCHANGED << commit, mutexMode, tables, tsdbCache, tsdbFileH, disk, wr, task,
                    nextId, nInserts, crashed >>
    /\ UNCHANGED life

\* lines 320-328: commit = 1 and every table's mem moves to imem
TriggerFreeze(c) ==
    /\ ~crashed
    /\ tc[c].pc = "freeze"
    /\ commit' = 1
    /\ tables' = [t \in Tids |->
                     IF ~IsNull(tables[t].mem)
                     THEN [mem |-> NULL, imem |-> tables[t].mem]
                     ELSE tables[t]]
    /\ tc' = [tc EXCEPT ![c].pc = "cache"]
    /\ UNCHANGED << mutexMode, mutex, tsdbCache, tsdbFileH, disk, wr, task,
                    nextId, nInserts, nTriggers, crashed >>
    /\ UNCHANGED life

\* lines 330-338: the cache generation is frozen, the commit thread is made
\* (pthread_create), the lock is released and the call returns 0
TriggerCache(c) ==
    /\ ~crashed
    /\ tc[c].pc = "cache"
    /\ tsdbCache' = [mem |-> NULL, imem |-> tsdbCache.mem, curBlock |-> 0]
    /\ \E n \in Tasks :
          /\ task[n].pc = "none"
          /\ \A m \in Tasks : m < n => task[m].pc # "none"
          /\ task' = [task EXCEPT ![n].pc = "start"]
    /\ mutex' = tsdbUnLockRepo(mutex, << "caller", c >>)
    /\ tc' = [tc EXCEPT ![c] = [pc |-> "idle", ret |-> 0]]
    /\ UNCHANGED << commit, mutexMode, tables, tsdbFileH, disk, wr,
                    nextId, nInserts, nTriggers, crashed >>
    /\ UNCHANGED life

(***************************************************************************)
(* tsdbCommitData, the commit thread.                                      *)
(***************************************************************************)
Returned == {"ret_null", "ret_iter", "ret_cols", "done"}
Running == {"start", "files", "pub2"}

\* lines 826-846.  alloc is what the allocations do: "ok", "noiters" (the
\* cursors cannot be made) or "nocols" (tdNewDataCols fails).  The three
\* early returns leave commit as it is.
CommitStart(n, alloc) ==
    /\ ~crashed
    /\ task[n].pc = "start"
    /\ IF IsNull(tsdbCache.imem)
       THEN /\ alloc = "ok"
            /\ task' = [task EXCEPT ![n].pc = "ret_null"]
            /\ UNCHANGED crashed
       ELSE IF alloc = "noiters"
       THEN /\ task' = [task EXCEPT ![n].pc = "ret_iter"]
            /\ UNCHANGED crashed
       ELSE IF IterAssertFails(tables)
       THEN /\ alloc = "ok"
            /\ crashed' = TRUE
            /\ UNCHANGED task
       ELSE IF alloc = "nocols"
       THEN /\ task' = [task EXCEPT ![n].pc = "ret_cols"]
            /\ UNCHANGED crashed
       ELSE /\ task' = [task EXCEPT ![n] =
                  [pc |-> "files",
                   iters |-> tsdbCreateTableIters(tables),
                   fid |-> tsdbGetKeyFileId(tsdbCache.imem.keyFirst),
                   efid |-> tsdbGetKeyFileId(tsdbCache.imem.keyLast),
                   failed |-> FALSE]]
            /\ UNCHANGED crashed
    /\ UNCHANGED << commit, mutexMode, mutex, tables, tsdbCache, tsdbFileH, disk, wr, tc,
                    nextId, nInserts, nTriggers >>
    /\ UNCHANGED life

\* lines 848-853: one round of the loop over fid; a failure is ignored
\* (failed keeps, while the loop runs, what the thread drops: that a partition
\* could not be written)
CommitFile(n) ==
    LET r == tsdbCommitToFile(tsdbFileH, disk, task[n].fid, task[n].iters)
    IN  /\ ~crashed
        /\ task[n].pc = "files"
        /\ task[n].fid <= task[n].efid
        /\ tsdbFileH' = r.fileH
        /\ disk' = r.disk
        /\ crashed' = r.crash
        /\ task' = [task EXCEPT ![n].fid = @ + 1, ![n].failed = @ \/ r.failed]
        /\ UNCHANGED << commit, mutexMode, mutex, tables, tsdbCache, wr, tc,
                        nextId, nInserts, nTriggers >>
        /\ UNCHANGED life

\* lines 855-863: the loop is over, the cursors are destroyed, the lock is
\* taken; pCache->imem is read through, freed and cleared; commit = 0
CommitPublish(n) ==
    /\ ~crashed
    /\ task[n].pc = "files"
    /\ task[n].fid > task[n].efid
    /\ LockReturns
    /\ mutex' = tsdbLockRepo(mutex, << "task", n >>)
    /\ IF IsNull(tsdbCache.imem)
       THEN /\ crashed' = TRUE
            /\ UNCHANGED << tsdbCache, commit, task >>
       ELSE /\ tsdbCache' = [tsdbCache EXCEPT !.imem = NULL]
            /\ commit' = 0
            /\ task' = [task EXCEPT ![n] =
                           [pc |-> "pub2", iters |-> NoIters, fid |-> 0, efid |-> 0,
                            failed |-> FALSE]]
            /\ UNCHANGED crashed
    /\ UNCHANGED << mutexMode, tables, tsdbFileH, disk, wr, tc,
                    nextId, nInserts, nTriggers >>
    /\ UNCHANGED life

\* lines 865-873: every table's imem is dropped, the lock is released
CommitReclaim(n) ==
    /\ ~crashed
    /\ task[n].pc = "pub2"
    /\ tables' = [t \in Tids |-> [tables[t] EXCEPT !.imem = NULL]]
    /\ mutex' = tsdbUnLockRepo(mutex, << "task", n >>)
    /\ task' = [task EXCEPT ![n].pc = "done"]
    /\ UNCHANGED << commit, mutexMode, tsdbCache, tsdbFileH, disk, wr, tc,
                    nextId, nInserts, nTriggers, crashed >>
    /\ UNCHANGED life

Next ==
    \/ \E w \in Writers, t \in Tids, k \in Keys, v \in Payloads : InsertBegin(w, t, k, v)
    \/ \E w \in Writers : InsertAlloc(w)
    \/ \E w \in Writers : InsertCheck(w)
    \/ \E w \in Writers, reload \in BOOLEAN : InsertPut(w, reload)
    \/ \E c \in Callers : TriggerCheck(c)
    \/ \E c \in Callers : TriggerFreeze(c)
    \/ \E c \in Callers : TriggerCache(c)
    \/ \E n \in Tasks, alloc \in {"ok", "noiters", "nocols"} : CommitStart(n, alloc)
    \/ \E n \in Tasks : CommitFile(n)
    \/ \E n \in Tasks : CommitPublish(n)
    \/ \E n \in Tasks : CommitReclaim(n)

Spec == Init /\ [][Next]_vars

(***************************************************************************)
(* The life cycle of the repository: tsdbCreateRepo, tsdbOpenRepo,         *)
(* tsdbCloseRepo, tsdbDropRepo, tsdbConfigRepo.                            *)
(***************************************************************************)
\* the step of tsdbCreateRepo that fails, if any
CreateFailures ==
    {"none", "rootDir", "access", "malloc", "saveCfg", "mkdir", "meta", "cache", "fileH"}

\* the step of tsdbOpenRepo that fails, if any
OpenFailures == {"none", "access", "malloc", "meta", "cache"}

\* tsdbSetRepoEnv: CONFIG is written, then the data directory is made;
\* mkdir fails on a directory that exists.  The entries of rootDir after it.
tsdbSetRepoEnv(fail) ==
    IF fail = "saveCfg" THEN [ret |-> -1, env |-> env]
    ELSE IF fail = "mkdir" \/ TSDB_DATA_DIR_NAME \in env
    THEN [ret |-> -1, env |-> env \cup {TSDB_CFG_FILE_NAME}]
    ELSE [ret |-> 0, env |-> env \cup {TSDB_CFG_FILE_NAME, TSDB_DATA_DIR_NAME}]

\* lines 141-202.  api.check is what tsdbCheckAndSetDefaultCfg returned (1:
\* it was not called), api.ret is 0 for a handle and -1 for NULL.
tsdbCreateRepo(fail) ==
    LET check == tsdbCheckAndSetDefaultCfg(pCfg)
        renv == tsdbSetRepoEnv(fail)
    IN  /\ ~crashed
        /\ state = "NONE"
        /\ api = NoCall
        /\ IF fail \in {"rootDir", "access"}
           THEN /\ api' = [op |-> "create", arg |-> 0, check |-> 1, ret |-> -1]
                /\ UNCHANGED << state, env, pCfg >>
           ELSE IF check.ret < 0
           THEN /\ fail = "none"
                /\ api' = [op |-> "create", arg |-> 0, check |-> -1, ret |-> -1]
                /\ pCfg' = check.cfg
                /\ UNCHANGED << state, env >>
           ELSE IF fail = "malloc"
           THEN /\ api' = [op |-> "create", arg |-> 0, check |-> 0, ret |-> -1]
                /\ pCfg' = check.cfg
                /\ UNCHANGED << state, env >>
           ELSE IF renv.ret < 0 \/ fail \in {"meta", "cache", "fileH"}
           THEN /\ api' = [op |-> "create", arg |-> 0, check |-> 0, ret |-> -1]
                /\ pCfg' = check.cfg
                /\ env' = renv.env
                /\ UNCHANGED state
           ELSE /\ api' = [op |-> "create", arg |-> 0, check |-> 0, ret |-> 0]
                /\ pCfg' = check.cfg
                /\ env' = renv.env
                /\ state' = "ACTIVE"
        /\ UNCHANGED << meta, submit, commit, mutexMode, mutex, tables, tsdbCache, tsdbFileH, disk,
                        wr, tc, task, nextId, nInserts, nTriggers, crashed, dangling,
                        nLife >>

\* tsdbRestoreCfg: fails when CONFIG cannot be opened
tsdbRestoreCfg(e) == IF TSDB_CFG_FILE_NAME \in e THEN 0 ELSE -1

\* lines 237-269.  The result of tsdbRestoreCfg is dropped (line 249), and
\* pRepo->tsdbFileH, the mutex and commit are never assigned: the handle's
\* tsdbFileH points to nothing valid.
tsdbOpenRepo(fail) ==
    /\ ~crashed
    /\ state = "NONE"
    /\ api = NoCall
    /\ IF fail # "none"
       THEN /\ api' = [op |-> "open", arg |-> 0, check |-> 0, ret |-> -1]
            /\ UNCHANGED << state, dangling >>
       ELSE /\ api' = [op |-> "open", arg |-> 0, check |-> 0, ret |-> 0]
            /\ state' = "ACTIVE"
            /\ dangling' = {"fileH"}
    /\ UNCHANGED << meta, submit, commit, mutexMode, mutex, tables, tsdbCache, tsdbFileH, disk,
                    wr, tc, task, nextId, nInserts, nTriggers, crashed, env, pCfg,
                    nLife >>

\* lines 283-296: the state is set, the meta and the cache are freed at
\* once; the handle itself is not freed and no file is touched
tsdbCloseRepo ==
    /\ ~crashed
    /\ state = "ACTIVE"
    /\ state' = "CLOSED"
    /\ dangling' = dangling \cup {"meta", "cache"}
    /\ api' = [op |-> "close", arg |-> 0, check |-> 0, ret |-> 0]
    /\ CallsMade < MaxCalls
    /\ nLife' = nLife + 1
    /\ UNCHANGED << meta, submit, commit, mutexMode, mutex, tables, tsdbCache, tsdbFileH, disk,
                    wr, tc, task, nextId, nInserts, nTriggers, crashed, env, pCfg >>

\* lines 672-697: the entries of rootDir after tsdbDestroyRepoEnv.  The
\* directory it reads and removes is rootDir/tsdb, which opendir finds only
\* if somebody else made it (it is empty then)
tsdbDestroyRepoEnv(e) == IF "tsdb" \in e THEN e \ {"tsdb"} ELSE e

\* lines 211-229: as tsdbCloseRepo, then tsdbDestroyRepoEnv and the handle
\* is freed
tsdbDropRepo ==
    /\ ~crashed
    /\ state = "ACTIVE"
    /\ state' = "CLOSED"
    /\ dangling' = dangling \cup {"meta", "cache", "handle"}
    /\ env' = tsdbDestroyRepoEnv(env)
    /\ api' = [op |-> "drop", arg |-> 0, check |-> 0, ret |-> 0]
    /\ CallsMade < MaxCalls
    /\ nLife' = nLife + 1
    /\ UNCHANGED << meta, submit, commit, mutexMode, mutex, tables, tsdbCache, tsdbFileH, disk,
                    wr, tc, task, nextId, nInserts, nTriggers, crashed, pCfg >>

\* lines 304-310: pRepo->config = *pCfg, whatever the state and the values
tsdbConfigRepo ==
    /\ ~crashed
    /\ state # "NONE"
    /\ "handle" \notin dangling
    /\ api' = [op |-> "config", arg |-> 0, check |-> 0, ret |-> 0]
    /\ CallsMade < MaxCalls
    /\ nLife' = nLife + 1
    /\ UNCHANGED << meta, submit, commit, mutexMode, mutex, tables, tsdbCache, tsdbFileH, disk,
                    wr, tc, task, nextId, nInserts, nTriggers, crashed,
                    state, dangling, env, pCfg >>

\* the pointers of the handle the threads under way read through
Touched ==
    UNION ({IF wr[w].pc # "idle" THEN {"meta", "cache"} ELSE {} : w \in Writers}
           \cup {IF tc[c].pc # "idle" THEN {"handle", "meta", "cache"} ELSE {} : c \in Callers}
           \cup {IF task[n].pc \in {"start", "pub2"} THEN {"handle", "meta", "cache"}
                 ELSE IF task[n].pc = "files" THEN {"handle", "fileH"}
                 ELSE {} : n \in Tasks})

\* a thread reads through a pointer that is freed or was never assigned:
\* the process may die of it, and its threads and its memory with it (the
\* files stay); if it does not, the thread goes on with what the memory
\* still holds (the other actions)
UndefinedAccess ==
    /\ ~crashed
    /\ Touched \cap dangling # {}
    /\ crashed' = TRUE
    /\ tables' = [t \in Tids |-> [mem |-> NULL, imem |-> NULL]]
    /\ tsdbCache' = [mem |-> NULL, imem |-> NULL, curBlock |-> 0]
    /\ wr' = [w \in Writers |-> [pc |-> "idle", tid |-> 0, key |-> 0, val |-> 0, pMem |-> 0]]
    /\ tc' = [c \in Callers |-> [pc |-> "idle", ret |-> 0]]
    /\ task' = [c \in Tasks |-> [pc |-> "none", iters |-> NoIters, fid |-> 0, efid |-> 0,
                                failed |-> FALSE]]
    /\ mutex' = Free
    /\ UNCHANGED << commit, mutexMode, tsdbFileH, disk, nextId, nInserts, nTriggers >>
    /\ UNCHANGED life

\* rootDir before the repository is made or opened: empty, left by an
\* earlier run, without its CONFIG, or with a directory tsdb in it
LifeEnvs ==
    {{}, {TSDB_CFG_FILE_NAME, TSDB_DATA_DIR_NAME}, {TSDB_DATA_DIR_NAME},
     {TSDB_CFG_FILE_NAME, TSDB_DATA_DIR_NAME, "tsdb"}, {"tsdb"}}

InitLife ==
    /\ InitHandle
    /\ InitFileH
    /\ state = "NONE"
    /\ dangling = {}
    /\ env \in LifeEnvs
    /\ api = NoCall
    /\ pCfg = UnsetCfg
    /\ nLife = 0
    /\ meta = AllTables
    /\ submit = << >>

NextLife ==
    \/ Next
    \/ \E fail \in CreateFailures : tsdbCreateRepo(fail)
    \/ \E fail \in OpenFailures : tsdbOpenRepo(fail)
    \/ tsdbCloseRepo
    \/ tsdbDropRepo
    \/ tsdbConfigRepo
    \/ UndefinedAccess

SpecLife == InitLife /\ [][NextLife]_vars

(***************************************************************************)
(* What the files of a group hold.  A block is [tid, last, numOfPoints,    *)
(* numOfSubBlocks, keyFirst, keyLast, rows].                               *)
(***************************************************************************)
FileBlocks(fid, suffix) ==
    IF << fid, suffix >> \in DOMAIN disk THEN disk[<< fid, suffix >>].blocks ELSE << >>

\* the blocks of table t in the .data and .last files of fid's group
GroupBlocks(fid, t) ==
    SelectSeq(FileBlocks(fid, ".data") \o FileBlocks(fid, ".last"),
              LAMBDA b : b.tid = t)

RECURSIVE Flatten(_)
Flatten(blocks) ==
    IF blocks = << >> THEN << >> ELSE Head(blocks).rows \o Flatten(Tail(blocks))

\* the rows of table t in the group of fid, in file order
DiskRows(fid, t) == Flatten(GroupBlocks(fid, t))

DiskKeys(fid, t) == {DiskRows(fid, t)[i][1] : i \in 1 .. Len(DiskRows(fid, t))}

\* the frozen rows of table t whose keys lie in the window of fid
FrozenKeys(t, fid) ==
    IF IsNull(tables[t].imem) THEN {}
    ELSE {k \in DOMAIN tables[t].imem.rows : tsdbGetKeyFileId(k) = fid}

Fids == {tsdbGetKeyFileId(k) : k \in Keys}

\* the step of commit thread n that drops the frozen memtables
Reclaims(n) == task[n].pc = "pub2" /\ task'[n].pc = "done"

(***************************************************************************)
(* Claims.                                                                 *)
(***************************************************************************)

\* C1: a call of tsdbTriggerCommit that finds a commit in flight (commit # 0)
\* returns -1 and changes no table's mem or imem, no cache generation,
\* not the commit flag, and makes no commit thread.
C1_RejectedTriggerHasNoEffect ==
    [][(nTriggers' = nTriggers + 1 /\ commit # 0)
          => /\ \E c \in Callers : tc' = [tc EXCEPT ![c] = [pc |-> "idle", ret |-> -1]]
             /\ UNCHANGED << tables, tsdbCache, commit, task, tsdbFileH, disk, mutex >>]_vars

\* C1, its case: a call was rejected while a commit thread runs
C1_Witness ==
    /\ \E c \in Callers : tc[c].pc = "idle" /\ tc[c].ret = -1
    /\ \E n \in Tasks : task[n].pc \in Running
    /\ commit = 1

\* C2: at most one commit thread runs at any time.
C2_AtMostOneCommitTask ==
    Cardinality({n \in Tasks : task[n].pc \in Running}) <= 1

\* C3: every path on which tsdbCommitData returns leaves commit = 0.
C3_ReturnClearsCommit ==
    [][\A n \in Tasks :
          (task[n].pc \notin Returned /\ task'[n].pc \in Returned) => commit' = 0]_vars

\* C4: when the frozen memtables are dropped, every frozen row is in the
\* file group of its partition.
C4_FrozenRowsAreOnDisk ==
    [][\A n \in Tasks : Reclaims(n) =>
          \A t \in Tids, f \in Fids : FrozenKeys(t, f) \subseteq DiskKeys(f, t)]_vars

\* C5: the caller of tsdbTriggerCommit holds the repository mutex during
\* the whole freeze (from commit = 1 to the swap of the cache generation).
C5_FreezeHoldsMutex ==
    \A c \in Callers : tc[c].pc \in {"freeze", "cache"} => mutex = << "caller", c >>

\* C6: no row is spliced into a frozen memtable: as long as a table's imem
\* is the same memtable, its rows and its counters stay as they are.
C6_FrozenMemtableNeverChanges ==
    [][\A t \in Tids :
          (~IsNull(tables[t].imem) /\ tables'[t].imem.id = tables[t].imem.id)
             => tables'[t].imem = tables[t].imem]_vars

\* C7: a freeze is performed only when cache.imem and every table's imem
\* are NULL, so that no frozen generation is overwritten.
C7_FreezeOnlyWithoutFrozen ==
    [][\A c \in Callers :
          (tc[c].pc = "freeze" /\ tc'[c].pc = "cache")
             => /\ IsNull(tsdbCache.imem)
                /\ \A t \in Tids : IsNull(tables[t].imem)]_vars

\* C8: a commit thread that finds the frozen state empty (cache.imem is
\* NULL, or no table has a frozen memtable to iterate) creates no file
\* group and creates, changes or removes no file.
C8_EmptyCommitChangesNoFile ==
    [][\A n \in Tasks :
          (/\ task'[n] # task[n]
           /\ \/ task[n].pc = "start" /\ IsNull(tsdbCache.imem)
              \/ task[n].pc = "files" /\ task[n].iters = NoIters)
             => UNCHANGED << disk, tsdbFileH >>]_vars

\* C8, its case: after a commit wrote file groups, the thread of a later
\* triggerCommit found nothing frozen and returned
C8_Witness ==
    /\ \E n \in Tasks : task[n].pc = "ret_null"
    /\ DOMAIN disk # {}

\* C9: when the frozen memtables are dropped, the group of each frozen
\* row's partition holds its timestamp once, with the payload of the
\* latest insert, and the rows of a table are in timestamp order.
C9_LatestPayloadOnDiskInOrder ==
    [][\A n \in Tasks : Reclaims(n) =>
          \A t \in Tids, f \in Fids :
             LET rows == DiskRows(f, t)
             IN  /\ \A i, j \in 1 .. Len(rows) : i < j => rows[i][1] < rows[j][1]
                 /\ \A k \in FrozenKeys(t, f) :
                       \E i \in 1 .. Len(rows) :
                          rows[i] = << k, tables[t].imem.rows[k] >>]_vars

\* minRowsPerFileBlock of scenario S1: TSDB_MIN_MIN_ROW_FBLOCK
MinRowsPerFileBlock == 10

\* C10: when the frozen memtables are dropped, a table with n frozen rows
\* in a partition, n < minRowsPerFileBlock, has one block of n rows in the
\* .last file of the group (last = 1, numOfSubBlocks = 1, keyFirst and
\* keyLast of those rows), and its SCompIdx has hasLast = 1,
\* numOfSuperBlocks = 1 and maxKey = the largest key.
C10_TailBlockAndIdx ==
    [][\A n \in Tasks : Reclaims(n) =>
          \A t \in Tids, f \in Fids :
             LET ks == FrozenKeys(t, f)
                 bs == SelectSeq(FileBlocks(f, ".last"), LAMBDA b : b.tid = t)
             IN  (ks # {} /\ Cardinality(ks) < MinRowsPerFileBlock) =>
                    /\ Len(bs) = 1
                    /\ bs[1].last = 1
                    /\ bs[1].numOfSubBlocks = 1
                    /\ bs[1].numOfPoints = Cardinality(ks)
                    /\ bs[1].keyFirst = Min(ks)
                    /\ bs[1].keyLast = Max(ks)
                    /\ << f, ".head" >> \in DOMAIN disk
                    /\ disk[<< f, ".head" >>].idx[t].hasLast = 1
                    /\ disk[<< f, ".head" >>].idx[t].numOfSuperBlocks = 1
                    /\ disk[<< f, ".head" >>].idx[t].maxKey = Max(ks)]_vars

\* the step of commit thread n that is one round of its loop over fid
CommitsPartition(n) == task[n].pc = "files" /\ task'[n].fid = task[n].fid + 1

\* key lies in the window of partition fid
InWindow(key, fid) ==
    /\ key >= fid * DaysPerFile * MsPerDay
    /\ key <= (fid + 1) * DaysPerFile * MsPerDay - 1

\* C11: a commit of rows in several partitions makes a file group for
\* every partition with a frozen row, holding the frozen rows of its
\* window and no row of another window; and a round of the loop over fid
\* leaves no cursor on a row of the partition it has done.
C11_EveryPartitionGetsItsRows ==
    [][\A n \in Tasks :
          /\ Reclaims(n) =>
                \A t \in Tids, f \in Fids :
                   FrozenKeys(t, f) # {} =>
                      /\ tsdbSearchFGroup(tsdbFileH, f) # 0
                      /\ FrozenKeys(t, f) \subseteq DiskKeys(f, t)
                      /\ \A k \in DiskKeys(f, t) : InWindow(k, f)
          /\ CommitsPartition(n) =>
                \A t \in Tids :
                   LET rest == task'[n].iters[t].rest
                   IN  rest = << >> \/ ~InWindow(Head(rest)[1], task[n].fid)]_vars

\* no cursor of iters stands on a row of partition fid
NoCursorInWindow(iters, fid) ==
    \A t \in Tids : iters[t].rest = << >> \/ ~InWindow(Head(iters[t].rest)[1], fid)

\* C12: a round of the loop for a partition in which no cursor stands on a
\* row changes no file and not the directory; and whatever a round creates
\* or changes belongs to its own partition, which holds a frozen row.
C12_PartitionWithoutRowsUntouched ==
    [][\A n \in Tasks :
          CommitsPartition(n) =>
             /\ NoCursorInWindow(task[n].iters, task[n].fid)
                   => UNCHANGED << disk, tsdbFileH >>
             /\ \A name \in DOMAIN disk' :
                   (name \notin DOMAIN disk \/ disk'[name] # disk[name]) =>
                      /\ name[1] = task[n].fid
                      /\ \E t \in Tids : \E i \in 1 .. Len(task[n].iters[t].rest) :
                            InWindow(task[n].iters[t].rest[i][1], task[n].fid)
             /\ \A i \in 1 .. Len(tsdbFileH'.fGroup) :
                   (\A j \in 1 .. Len(tsdbFileH.fGroup) :
                       tsdbFileH.fGroup[j] # tsdbFileH'.fGroup[i])
                      => tsdbFileH'.fGroup[i].fileId = task[n].fid]_vars

\* C12, its case: a commit thread with cursors did partition 0, then passed
\* over partition 1, on whose rows no cursor stood, and made no file for it
C12_Witness ==
    \E n \in Tasks :
       /\ task[n].pc = "files"
       /\ task[n].efid = 1
       /\ task[n].fid = 2
       /\ task[n].iters # NoIters
       /\ NoCursorInWindow(task[n].iters, 1)
       /\ << 0, ".head" >> \in DOMAIN disk
       /\ << 1, ".head" >> \notin DOMAIN disk

\* C17: a commit thread that could not write a partition keeps the frozen
\* generation: it neither clears cache.imem nor drops the tables' imem.
C17_FailedPartitionKeepsFrozen ==
    [][\A n \in Tasks :
          task[n].failed => task'[n].pc \notin {"pub2", "done"}]_vars

(***************************************************************************)
(* The file directory on its own: tsdbCreateFGroup and tsdbRemoveFileGroup *)
(* called with any partition id.                                           *)
(***************************************************************************)
\* tsdbRemoveFileGroup: [ret, fileH, disk].  The three files of the group
\* are removed and the groups behind it move up.
tsdbRemoveFileGroup(fileH, dsk, fid) ==
    LET n == Len(fileH.fGroup)
        g == bsearch(fid, fileH.fGroup, 0, n)
        found == g # 0
        names == {<< fid, tsdbFileSuffix[type + 1] >> :
                     type \in TSDB_FILE_TYPE_HEAD .. TSDB_FILE_TYPE_LAST}
    IN  IF ~found THEN [ret |-> -1, fileH |-> fileH, disk |-> dsk]
        ELSE [ret |-> 0,
              fileH |-> [fileH EXCEPT !.fGroup =
                            SubSeq(fileH.fGroup, 1, g - 1) \o SubSeq(fileH.fGroup, g + 1, n)],
              disk |-> [name \in (DOMAIN dsk) \ names |-> dsk[name]]]

FGroupCreate(fid) ==
    LET r == tsdbCreateFGroup(tsdbFileH, disk, fid)
    IN  /\ ~crashed
        /\ tsdbFileH' = r.fileH
        /\ disk' = r.disk
        /\ api' = [op |-> "createFGroup", arg |-> fid, check |-> 0, ret |-> r.ret]
        /\ UNCHANGED << meta, submit, commit, mutexMode, mutex, tables, tsdbCache, wr, tc, task, nextId,
                        nInserts, nTriggers, crashed, state, dangling, env, pCfg, nLife >>

FGroupRemove(fid) ==
    LET r == tsdbRemoveFileGroup(tsdbFileH, disk, fid)
    IN  /\ ~crashed
        /\ tsdbFileH' = r.fileH
        /\ disk' = r.disk
        /\ api' = [op |-> "removeFGroup", arg |-> fid, check |-> 0, ret |-> r.ret]
        /\ UNCHANGED << meta, submit, commit, mutexMode, mutex, tables, tsdbCache, wr, tc, task, nextId,
                        nInserts, nTriggers, crashed, state, dangling, env, pCfg, nLife >>

\* tsdbOpenFilesForCommit; api.ret is -1 for NULL
FGroupOpen(fid) ==
    LET r == tsdbOpenFilesForCommit(tsdbFileH, fid)
    IN  /\ ~crashed
        /\ tsdbFileH' = r.fileH
        /\ api' = [op |-> "openFGroup", arg |-> fid, check |-> 0,
                   ret |-> IF r.pGroup = 0 THEN -1 ELSE 0]
        /\ UNCHANGED << meta, submit, commit, mutexMode, mutex, tables, tsdbCache, disk, wr, tc, task,
                        nextId, nInserts, nTriggers, crashed, state, dangling, env, pCfg,
                        nLife >>

\* the bsearch of key in base[l..u) subtracts two ints whose difference is
\* outside the range of int
RECURSIVE bsearchOverflows(_, _, _, _)
bsearchOverflows(key, base, l, u) ==
    IF l >= u THEN FALSE
    ELSE LET idx == (l + u) \div 2
             cmp == compFGroupKey(key, base[idx + 1])
         IN  \/ Overflows32(key, base[idx + 1].fileId)
             \/ cmp < 0 /\ bsearchOverflows(key, base, l, idx)
             \/ cmp > 0 /\ bsearchOverflows(key, base, idx + 1, u)

\* a call op(fid) on the directory runs into a signed overflow in
\* compFGroupKey (the bsearch) or in compFGroup (the qsort of the groups
\* with the new one appended; which pairs qsort compares is its own affair)
CallOverflows(op, fid) ==
    LET base == tsdbFileH.fGroup
        n == Len(base)
        inRange == n # 0 /\ fid >= base[1].fileId /\ fid <= base[n].fileId
        search == inRange /\ bsearchOverflows(fid, base, 0, n)
        ids == {base[i].fileId : i \in 1 .. n} \cup {fid}
    IN  CASE op = "openFGroup" -> search
          [] op = "removeFGroup" -> bsearchOverflows(fid, base, 0, n)
          [] op = "createFGroup" ->
                /\ n < tsdbFileH.maxFGroups
                /\ \/ search
                   \/ /\ tsdbSearchFGroup(tsdbFileH, fid) = 0
                      /\ CreateGroupFiles(disk, fid, TSDB_FILE_TYPE_HEAD).ret = 0
                      /\ \E x \in ids, y \in ids : Overflows32(x, y)

\* the signed overflow of a call is undefined: besides wrapping around (the
\* three actions above) the build may trap, which ends the process
FGroupTrap(op, fid) ==
    /\ ~crashed
    /\ CallOverflows(op, fid)
    /\ crashed' = TRUE
    /\ UNCHANGED << meta, submit, commit, mutexMode, mutex, tables, tsdbCache, tsdbFileH, disk,
                    wr, tc, task, nextId, nInserts, nTriggers, state, dangling, env, api,
                    pCfg, nLife >>

\* the partition ids the directory is called with: those of the keys and the
\* two ends of int
FidInputs == (0 .. MaxFid) \cup {INT_MIN, INT_MAX}

\* what tsdbInitFileH finds in the data directory and does not register
\* (lines 55-60 read the entries and do nothing with them): nothing, the
\* group of partition 0 of an earlier run, or a single file
DiskInputs ==
    {<< >>,
     CreateGroupFiles(<< >>, 0, TSDB_FILE_TYPE_HEAD).disk,
     tsdbCreateFile(<< >>, 1, ".last", FALSE, TRUE).disk}

InitFGroup ==
    /\ InitHandle
    /\ commit = 0
    /\ mutexMode = "excl"
    /\ tsdbFileH = [maxFGroups |-> NumTables, fGroup |-> << >>]
    /\ disk \in DiskInputs
    /\ state = "ACTIVE"
    /\ dangling = {}
    /\ env = {TSDB_CFG_FILE_NAME, TSDB_DATA_DIR_NAME}
    /\ api = [op |-> "open", arg |-> 0, check |-> 0, ret |-> 0]
    /\ pCfg = DefaultCfg
    /\ nLife = 0
    /\ meta = AllTables
    /\ submit = << >>

NextFGroup ==
    \/ \E fid \in FidInputs : FGroupCreate(fid)
    \/ \E fid \in FidInputs : FGroupRemove(fid)
    \/ \E fid \in FidInputs : FGroupOpen(fid)
    \/ \E op \in {"createFGroup", "removeFGroup", "openFGroup"}, fid \in FidInputs :
          FGroupTrap(op, fid)

SpecFGroup == InitFGroup /\ [][NextFGroup]_vars

\* C18: tsdbCreateFGroup of a partition id that is registered returns 0 and
\* leaves the directory and the files as they are, also when the directory
\* holds maxFGroups groups.
C18_CreateFGroupIdempotent ==
    [][\A fid \in 0 .. MaxFid :
          (/\ api'.op = "createFGroup"
           /\ api'.arg = fid
           /\ \E i \in 1 .. Len(tsdbFileH.fGroup) : tsdbFileH.fGroup[i].fileId = fid)
             => api'.ret = 0 /\ UNCHANGED << tsdbFileH, disk >>]_vars

\* a call of the life cycle returns in this step
Returns(op) == api'.op = op /\ (api = NoCall \/ nLife' = nLife + 1)

\* C13: a repository in state CLOSED stays CLOSED, and a call of
\* tsdbInsertData, tsdbTriggerCommit or tsdbConfigRepo that begins while the
\* state is not ACTIVE is rejected: it returns an error and changes no
\* memtable, no cache generation, not the commit flag and no file.
C13_ClosedIsTerminalAndRejects ==
    [][/\ state = "CLOSED" => state' = "CLOSED"
       /\ (state # "ACTIVE" /\ nInserts' = nInserts + 1) =>
             /\ \A w \in Writers : wr'[w].pc = "idle"
             /\ UNCHANGED << tables, tsdbCache, commit, disk, tsdbFileH >>
       /\ (state # "ACTIVE" /\ nTriggers' = nTriggers + 1) =>
             /\ \E c \in Callers : tc' = [tc EXCEPT ![c] = [pc |-> "idle", ret |-> -1]]
             /\ UNCHANGED << tables, tsdbCache, commit, disk, tsdbFileH >>
       /\ (state # "ACTIVE" /\ Returns("config")) => api'.ret = -1]_vars

\* C14: the state becomes ACTIVE only in a call of tsdbCreateRepo or
\* tsdbOpenRepo that returns a handle; such a call returns a handle exactly
\* when it leaves the state ACTIVE, with CONFIG and the data directory in
\* place, and tsdbOpenRepo returns NULL when CONFIG cannot be restored.
C14_ActiveOnlyBySuccessfulCreateOrOpen ==
    [][/\ (state # "ACTIVE" /\ state' = "ACTIVE") =>
             /\ Returns("create") \/ Returns("open")
             /\ api'.ret = 0
       /\ (Returns("create") \/ Returns("open")) =>
             /\ api'.ret = 0 <=> state' = "ACTIVE"
             /\ api'.ret = 0 => {TSDB_CFG_FILE_NAME, TSDB_DATA_DIR_NAME} \subseteq env'
       /\ (Returns("open") /\ tsdbRestoreCfg(env) < 0) => api'.ret = -1]_vars

\* C15: tsdbCloseRepo leaves the state CLOSED and every file as it is;
\* tsdbDropRepo leaves the state CLOSED and neither CONFIG nor the data
\* directory nor any file of a file group behind.
C15_CloseKeepsFilesDropRemovesThem ==
    [][/\ Returns("close") =>
             state' = "CLOSED" /\ env' = env /\ disk' = disk
       /\ Returns("drop") =>
             /\ state' = "CLOSED"
             /\ TSDB_CFG_FILE_NAME \notin env'
             /\ TSDB_DATA_DIR_NAME \notin env'
             /\ DOMAIN disk' = {}]_vars

\* C16: the meta and the cache are freed by tsdbCloseRepo or tsdbDropRepo
\* only when no commit thread is under way.
C16_CloseWaitsForCommitTask ==
    [][(Returns("close") \/ Returns("drop")) =>
          \A n \in Tasks : task[n].pc \notin Running]_vars

(***************************************************************************)
(* Validation of the configuration on its own: tsdbCreateRepo called once  *)
(* on an empty rootDir with a configuration drawn from CfgInputs.          *)
(***************************************************************************)
\* the values of each option: unset, below, at and above its bounds
CfgInputs ==
    [precision : {-2, -1, TSDB_PRECISION_MILLI, TSDB_PRECISION_NANO, TSDB_PRECISION_NANO + 1},
     tsdbId : {-1, 0},
     maxTables : {-1, TSDB_MIN_TABLES - 1, TSDB_MIN_TABLES, TSDB_MAX_TABLES,
                  TSDB_MAX_TABLES + 1},
     daysPerFile : {-1, TSDB_MIN_DAYS_PER_FILE - 1, TSDB_MAX_DAYS_PER_FILE,
                    TSDB_MAX_DAYS_PER_FILE + 1},
     minRowsPerFileBlock : {-1, TSDB_MIN_MIN_ROW_FBLOCK - 1, TSDB_MIN_MIN_ROW_FBLOCK,
                            TSDB_MAX_MIN_ROW_FBLOCK, TSDB_MAX_MIN_ROW_FBLOCK + 1},
     maxRowsPerFileBlock : {-1, TSDB_MIN_MAX_ROW_FBLOCK - 1, TSDB_MIN_MAX_ROW_FBLOCK,
                            TSDB_MAX_MAX_ROW_FBLOCK, TSDB_MAX_MAX_ROW_FBLOCK + 1},
     keep : {-1, TSDB_MIN_KEEP - 1, TSDB_MIN_KEEP, TSDB_MAX_KEEP},
     maxCacheSize : {-1, TSDB_MIN_CACHE_SIZE - 1, TSDB_MIN_CACHE_SIZE,
                     TSDB_MAX_CACHE_SIZE, TSDB_MAX_CACHE_SIZE + 1}]

InitCfg ==
    /\ InitHandle
    /\ InitFileH
    /\ commit = 0
    /\ mutexMode = "excl"
    /\ state = "NONE"
    /\ dangling = {}
    /\ env = {}
    /\ api = NoCall
    /\ nLife = 0
    /\ meta = AllTables
    /\ submit = << >>
    /\ pCfg \in CfgInputs

NextCfg == \E fail \in CreateFailures : tsdbCreateRepo(fail)

SpecCfg == InitCfg /\ [][NextCfg]_vars

\* v is the unset marker or lies in [lo, hi]
InBound(v, lo, hi) == v = -1 \/ (lo <= v /\ v <= hi)

\* the value of an option once the default has taken the place of -1
OrDefault(v, def) == IF v = -1 THEN def ELSE v

\* the configuration with every unset option at its documented default
WithDefaults(cfg) ==
    [precision |-> OrDefault(cfg.precision, TSDB_PRECISION_MILLI),
     tsdbId |-> cfg.tsdbId,
     maxTables |-> OrDefault(cfg.maxTables, 1000),
     daysPerFile |-> OrDefault(cfg.daysPerFile, 10),
     minRowsPerFileBlock |-> OrDefault(cfg.minRowsPerFileBlock, 100),
     maxRowsPerFileBlock |-> OrDefault(cfg.maxRowsPerFileBlock, 4096),
     keep |-> OrDefault(cfg.keep, 3650),
     maxCacheSize |-> OrDefault(cfg.maxCacheSize, 16 * 1024 * 1024)]

\* the configurations the validation is to accept
Valid(cfg) ==
    /\ InBound(cfg.precision, TSDB_PRECISION_MILLI, TSDB_PRECISION_NANO)
    /\ cfg.tsdbId >= 0
    /\ InBound(cfg.maxTables, 10, 100000)
    /\ InBound(cfg.daysPerFile, 1, 60)
    /\ InBound(cfg.minRowsPerFileBlock, 10, 1000)
    /\ InBound(cfg.maxRowsPerFileBlock, 200, 10000)
    /\ InBound(cfg.keep, 1, 2147483647)
    /\ InBound(cfg.maxCacheSize, 4 * 1024 * 1024, 1024 * 1024 * 1024)
    /\ WithDefaults(cfg).minRowsPerFileBlock <= WithDefaults(cfg).maxRowsPerFileBlock

\* a call of tsdbCreateRepo that reached tsdbCheckAndSetDefaultCfg returns
CreateChecked == api = NoCall /\ api'.op = "create" /\ api'.check # 1

\* C19: the validation accepts a configuration exactly when every option is
\* unset (-1) or within its [Min, Max] bound, tsdbId >= 0 and, with the
\* defaults in place, minRowsPerFileBlock <= maxRowsPerFileBlock; on
\* acceptance every unset option holds its default and every set option is
\* unchanged.
C19_ValidationAcceptsAndDefaults ==
    [][CreateChecked =>
          /\ (api'.check = 0 <=> Valid(pCfg))
          /\ (api'.check = 0 => pCfg' = WithDefaults(pCfg))]_vars

\* C19, witness: a configuration was accepted in which one option was unset
\* and took its default while others were set at a bound
C19_Witness ==
    /\ api.op = "create"
    /\ api.check = 0
    /\ pCfg.daysPerFile = TSDB_DEFAULT_DAYS_PER_FILE
    /\ pCfg.maxTables = TSDB_MAX_TABLES
    /\ pCfg.minRowsPerFileBlock = TSDB_MAX_MIN_ROW_FBLOCK
    /\ pCfg.maxRowsPerFileBlock = TSDB_MAX_MAX_ROW_FBLOCK

\* C20: a create whose configuration fails the validation returns failure
\* and changes nothing: rootDir gets no CONFIG file and no data directory,
\* there is no repository handle, and the caller's configuration is as it
\* was passed in.
C20_RejectedCreateHasNoSideEffects ==
    [][(api = NoCall /\ api'.op = "create" /\ ~Valid(pCfg)) =>
          /\ api'.ret = -1
          /\ env' = env
          /\ state' = state
          /\ pCfg' = pCfg]_vars


(***************************************************************************)
(* The cache arena at its cap.                                             *)
(***************************************************************************)
\* C21: an insert whose allocation from the cache fails returns an error:
\* the writer is back from the call, the process lives, no memtable has
\* changed and the repository is ACTIVE; and once a commit has drained the
\* frozen generation, the allocation of an insert succeeds.
C21_CacheFullFailsInsertOnly ==
    [][\A w \in Writers :
          InsertAlloc(w) =>
             /\ CacheIsFull(tsdbCache) =>
                   /\ ~crashed'
                   /\ wr'[w].pc = "idle"
                   /\ tables' = tables
                   /\ state' = "ACTIVE"
             /\ (IsNull(tsdbCache.imem) /\ IsNull(tsdbCache.mem)) => wr'[w].pc = "chk2"]_vars


(***************************************************************************)
(* tsdbInsertData as one call of one thread: a submit message is a         *)
(* sequence of blocks [uid, tid, rows], rows the keys of at least one row; *)
(* every row of a call carries the number of the call as its payload.      *)
(***************************************************************************)
\* tsdbIsValidTableToInsert: the tid of the table, -1 for NULL
tsdbIsValidTableToInsert(pMeta, uid, tid) ==
    IF tid \notin Tids THEN -1
    ELSE IF pMeta[tid] = 0 THEN -1
    ELSE IF pMeta[tid] # uid THEN -1
    ELSE tid

\* lines 704-747 run without interruption on the repository
\* st = [tables, cache, nextId]: [ret, crash, st]
tdInsertRowToTable(st, t, key, val) ==
    LET st1 == IF IsNull(st.tables[t].mem)
               THEN [st EXCEPT !.tables[t].mem = NewMemTable(st.nextId),
                               !.nextId = @ + 1]
               ELSE st
    IN  IF CacheIsFull(st1.cache)
        THEN [ret |-> 0, crash |-> TRUE, st |-> st1]
        ELSE [ret |-> 0, crash |-> FALSE,
              st |-> [st1 EXCEPT !.cache = tsdbAllocFromCache(@, key),
                                 !.tables[t].mem = PutRow(@, key, val)]]

\* the loop of tsdbInsertDataToTable over the rows of a block, lines 759-764
RECURSIVE InsertRows(_, _, _, _)
InsertRows(st, t, rows, val) ==
    IF rows = << >> THEN [ret |-> 0, crash |-> FALSE, st |-> st]
    ELSE LET r == tdInsertRowToTable(st, t, Head(rows), val)
         IN  IF r.crash \/ r.ret < 0 THEN [r EXCEPT !.ret = -1]
             ELSE InsertRows(r.st, t, Tail(rows), val)

\* lines 749-767
tsdbInsertDataToTable(st, pMeta, pBlock, val) ==
    LET pTable == tsdbIsValidTableToInsert(pMeta, pBlock.uid, pBlock.tid)
    IN  IF pTable = -1 THEN [ret |-> -1, crash |-> FALSE, st |-> st]
        ELSE InsertRows(st, pTable, pBlock.rows, val)

\* C22, mutant: a block that fails is passed over and the next one is taken
RECURSIVE tsdbInsertData_Continue(_, _, _, _)
tsdbInsertData_Continue(st, pMeta, pMsg, val) ==
    IF pMsg = << >> THEN [ret |-> 0, crash |-> FALSE, st |-> st]
    ELSE LET r == tsdbInsertDataToTable(st, pMeta, Head(pMsg), val)
         IN  IF r.crash THEN r
             ELSE LET q == tsdbInsertData_Continue(r.st, pMeta, Tail(pMsg), val)
                  IN  IF r.ret < 0 THEN [q EXCEPT !.ret = -1] ELSE q

\* lines 387-399: the first block that fails ends the call with -1
RECURSIVE tsdbInsertData(_, _, _, _)
tsdbInsertData(st, pMeta, pMsg, val) ==
    IF pMsg = << >> THEN [ret |-> 0, crash |-> FALSE, st |-> st]
    ELSE LET r == tsdbInsertDataToTable(st, pMeta, Head(pMsg), val)
         IN  IF r.crash \/ r.ret < 0 THEN [r EXCEPT !.ret = -1]
             ELSE tsdbInsertData(r.st, pMeta, Tail(pMsg), val)

\* timestamps of the rows of a message: before and after the epoch
MsgKeys == {-1, 1}

RowSeqs == {<< k >> : k \in MsgKeys} \cup {<< k, l >> : k \in MsgKeys, l \in MsgKeys}

\* the blocks: the first table, the last table or a tid out of range, with
\* the uid of the first or of the last table
Blocks == [uid : {1, NumTables}, tid : {0, NumTables - 1, NumTables}, rows : RowSeqs]

\* the messages: one block, or two blocks of one row after the epoch each
Msgs ==
    {<< b >> : b \in Blocks}
        \cup {<< b, c >> : b \in {x \in Blocks : x.rows = << 1 >>},
                           c \in {x \in Blocks : x.rows = << 1 >>}}

\* a call of tsdbInsertData; a call that killed the process never returns
InsertMsg(pMsg) ==
    LET r == tsdbInsertData([tables |-> tables, cache |-> tsdbCache, nextId |-> nextId],
                            meta, pMsg, nInserts + 1)
    IN  /\ ~crashed
        /\ state # "NONE"
        /\ nInserts < MaxMsgs
        /\ nInserts' = nInserts + 1
        /\ tables' = r.st.tables
        /\ tsdbCache' = r.st.cache
        /\ nextId' = r.st.nextId
        /\ crashed' = r.crash
        /\ api' = IF r.crash THEN api
                  ELSE [op |-> "insert", arg |-> 0, check |-> 0, ret |-> r.ret]
        /\ submit' = pMsg
        /\ UNCHANGED << meta, commit, mutexMode, mutex, tsdbFileH, disk, wr, tc, task,
                        nTriggers, state, dangling, env, pCfg, nLife >>

\* the table directories: every slot taken, or the last slot empty
MetaInputs == {AllTables, [AllTables EXCEPT ![NumTables - 1] = 0]}

InitInsert ==
    /\ InitHandle
    /\ InitFileH
    /\ commit = 0
    /\ mutexMode = "excl"
    /\ state = "ACTIVE"
    /\ dangling = {}
    /\ env = {TSDB_CFG_FILE_NAME, TSDB_DATA_DIR_NAME}
    /\ api = NoCall
    /\ pCfg = DefaultCfg
    /\ nLife = 0
    /\ meta \in MetaInputs
    /\ submit = << >>

NextInsert == \E pMsg \in Msgs : InsertMsg(pMsg)

SpecInsert == InitInsert /\ [][NextInsert]_vars


\* the rows of a memtable, none for NULL
RowsOf(m) == IF IsNull(m) THEN EmptyRows ELSE m.rows

\* validateForInsert: tid in range, slot occupied, uid matches
BlockPasses(b) == b.tid \in Tids /\ meta[b.tid] # 0 /\ meta[b.tid] = b.uid

\* the index of the first block of the message that does not pass, one past
\* the last block when all pass
FirstBad(pMsg) ==
    IF \E i \in 1 .. Len(pMsg) : ~BlockPasses(pMsg[i])
    THEN Min({i \in 1 .. Len(pMsg) : ~BlockPasses(pMsg[i])})
    ELSE Len(pMsg) + 1

\* the timestamps the blocks before the first bad one give to table t
KeysGiven(pMsg, t) ==
    UNION {{pMsg[i].rows[j] : j \in 1 .. Len(pMsg[i].rows)} :
              i \in {x \in 1 .. (FirstBad(pMsg) - 1) : pMsg[x].tid = t}}

\* C22: a message with a block that does not pass validateForInsert makes
\* tsdbInsertData return -1 with no row of that block or of a later block
\* inserted; the rows of the blocks before it are inserted, and the memtable
\* of no other table changes.  A message whose blocks all pass returns 0.
C22_BadBlockEndsTheMessage ==
    [][(nInserts' = nInserts + 1 /\ ~crashed') =>
             /\ api'.ret = IF FirstBad(submit') <= Len(submit') THEN -1 ELSE 0
             /\ \A t \in Tids :
                   LET K == KeysGiven(submit', t)
                       old == RowsOf(tables[t].mem)
                       new == RowsOf(tables'[t].mem)
                   IN  IF K = {}
                       THEN tables'[t] = tables[t]
                       ELSE /\ DOMAIN new = DOMAIN old \cup K
                            /\ \A k \in K : new[k] = nInserts + 1
                            /\ \A k \in (DOMAIN old) \ K : new[k] = old[k]
                            /\ tables'[t].imem = tables[t].imem]_vars

\* C22, its case: the first call gave a message of two blocks, the second of
\* which did not pass; the row of the first block is in its table
C22_Witness ==
    /\ api.op = "insert"
    /\ api.ret = -1
    /\ nInserts = 1
    /\ \E t \in Tids : DOMAIN RowsOf(tables[t].mem) # {}


\* C23: the active memtable of a table that has rows has keyFirst at its
\* smallest and keyLast at its largest timestamp, negative ones included, and
\* numOfPoints at the number of distinct timestamps inserted.
C23_MemTableKeyRange ==
    \A t \in Tids :
       DOMAIN RowsOf(tables[t].mem) # {} =>
          /\ tables[t].mem.keyFirst = Min(DOMAIN tables[t].mem.rows)
          /\ tables[t].mem.keyLast = Max(DOMAIN tables[t].mem.rows)
          /\ tables[t].mem.keyFirst <= tables[t].mem.keyLast
          /\ tables[t].mem.numOfPoints = Cardinality(DOMAIN tables[t].mem.rows)

\* a call that gives one row to a table whose active memtable has a row of
\* that timestamp returns
UpdatesRow(b) ==
    /\ nInserts' = nInserts + 1
    /\ ~crashed'
    /\ submit' = << b >>
    /\ Len(b.rows) = 1
    /\ BlockPasses(b)
    /\ b.rows[1] \in DOMAIN RowsOf(tables[b.tid].mem)

\* C24: a row whose timestamp is in the active memtable is an update: the
\* payload stored under the timestamp is the new one, numOfPoints does not
\* grow and no node is allocated from the cache for it.
C24_EqualKeyIsUpdate ==
    [][\A b \in Blocks :
          UpdatesRow(b) =>
             /\ tables'[b.tid].mem.rows[b.rows[1]] = nInserts + 1
             /\ tables'[b.tid].mem.numOfPoints = tables[b.tid].mem.numOfPoints
             /\ GenSize(tsdbCache'.mem) = GenSize(tsdbCache.mem)]_vars


(***************************************************************************)
(* The commit thread and the repository mutex.                             *)
(***************************************************************************)
\* nothing is frozen: cache.imem and every table's imem are NULL
NothingFrozen(tbls, cache) == IsNull(cache.imem) /\ \A t \in Tids : IsNull(tbls[t].imem)

\* C25: the publish step of the commit thread is one critical section of the
\* repository mutex; when it is over cache.imem and every table's imem are
\* NULL and commit is 0; and a thread that reads commit = 0 (line 316 of
\* tsdbTriggerCommit) never does so while something is still frozen.
C25_PublishIsOneCriticalSection ==
    [][/\ \A n \in Tasks :
             /\ task'[n].pc = "pub2" => mutex' = << "task", n >>
             /\ Reclaims(n) => NothingFrozen(tables', tsdbCache') /\ commit' = 0
       /\ \A c \in Callers :
             (tc[c].pc = "idle" /\ tc'[c].pc = "freeze") => NothingFrozen(tables, tsdbCache)]_vars

\* C26: the commit thread holds the repository mutex in every step that
\* puts a new file group into the directory (tsdbCreateFGroup appending to
\* fGroup[] and raising numOfFGroups).
C26_CommitterLocksDirectoryInsert ==
    [][\A n \in Tasks :
          (CommitsPartition(n) /\ Len(tsdbFileH'.fGroup) > Len(tsdbFileH.fGroup))
             => mutex = << "task", n >>]_vars

\* the files of partition fid that are on dsk, by suffix
SuffixesOf(dsk, fid) == {name[2] : name \in {x \in DOMAIN dsk : x[1] = fid}}

\* C28: a round of the loop over fid that had rows to commit leaves the
\* group of its partition as exactly f<fid>.head, .data and .last, with no
\* f<fid>.h or f<fid>.l, and every file of the group closed; and a round for
\* a partition that is in the directory already (a second commit into it)
\* creates its temporary files and opens the group without an error.
C28_CommitFinishLeavesOnlyTheGroup ==
    [][\A n \in Tasks :
          (CommitsPartition(n) /\ ~NoCursorInWindow(task[n].iters, task[n].fid)) =>
             /\ SuffixesOf(disk', task[n].fid) = {".head", ".data", ".last"}
             /\ \A i \in 1 .. Len(tsdbFileH'.fGroup) :
                   tsdbFileH'.fGroup[i].fileId = task[n].fid
                      => ~tsdbFileH'.fGroup[i].opened
             /\ tsdbSearchFGroup(tsdbFileH, task[n].fid) # 0
                   => ~tsdbCommitToFile(tsdbFileH, disk, task[n].fid,
                                        task[n].iters).failed]_vars

(***************************************************************************)
(* The file directory called with any partition id an int can hold.        *)
(***************************************************************************)
\* the partition ids in the directory fileH
FidsIn(fileH) == {fileH.fGroup[i].fileId : i \in 1 .. Len(fileH.fGroup)}

\* the call op(fid) on the directory returns in this step
FGroupReturns(op, fid) == ~crashed' /\ api'.op = op /\ api'.arg = fid

\* C29: whatever partition ids tsdbCreateFGroup and tsdbRemoveFileGroup are
\* called with, fGroup[0..numOfFGroups) is in strictly ascending order of
\* fileId and holds the ids created with success and not removed since;
\* tsdbRemoveFileGroup of an id that is not there returns -1 and changes
\* nothing, and of one that is there takes out its entry and keeps the
\* order of the others.
C29_DirectorySortedSetOfFids ==
    [][/\ \A i \in 1 .. (Len(tsdbFileH'.fGroup) - 1) :
             tsdbFileH'.fGroup[i].fileId < tsdbFileH'.fGroup[i + 1].fileId
       /\ \A fid \in FidInputs :
             /\ FGroupReturns("createFGroup", fid) =>
                   FidsIn(tsdbFileH') = IF api'.ret = 0
                                        THEN FidsIn(tsdbFileH) \cup {fid}
                                        ELSE FidsIn(tsdbFileH)
             /\ FGroupReturns("removeFGroup", fid) =>
                   IF fid \in FidsIn(tsdbFileH)
                   THEN /\ api'.ret = 0
                        /\ \E g \in 1 .. Len(tsdbFileH.fGroup) :
                              /\ tsdbFileH.fGroup[g].fileId = fid
                              /\ tsdbFileH'.fGroup =
                                    SubSeq(tsdbFileH.fGroup, 1, g - 1)
                                    \o SubSeq(tsdbFileH.fGroup, g + 1, Len(tsdbFileH.fGroup))
                   ELSE api'.ret = -1 /\ UNCHANGED << tsdbFileH, disk >>]_vars

\* one of the three files of partition fid is on dsk, so that tsdbCreateFile
\* cannot create it
FileInTheWay(dsk, fid) ==
    \E type \in TSDB_FILE_TYPE_HEAD .. TSDB_FILE_TYPE_LAST :
       << fid, tsdbFileSuffix[type + 1] >> \in DOMAIN dsk

\* C30: the directory never holds more than maxFGroups groups; and
\* tsdbCreateFGroup of a partition id that is not in the directory returns
\* -1 when, and only when, the directory is full or one of the three files
\* cannot be created, and then leaves fGroup[] and numOfFGroups as they
\* were, tsdbSearchFGroup still finding nothing for the id.
C30_FailedCreateLeavesDirectory ==
    [][/\ Len(tsdbFileH'.fGroup) <= tsdbFileH'.maxFGroups
       /\ \A fid \in FidInputs :
             (FGroupReturns("createFGroup", fid) /\ fid \notin FidsIn(tsdbFileH)) =>
                /\ api'.ret = -1 <=>
                      \/ Len(tsdbFileH.fGroup) >= tsdbFileH.maxFGroups
                      \/ FileInTheWay(disk, fid)
                /\ api'.ret = -1 =>
                      /\ tsdbFileH' = tsdbFileH
                      /\ tsdbSearchFGroup(tsdbFileH', fid) = 0
                      /\ fid \notin FidsIn(tsdbFileH')
                /\ api'.ret # -1 => api'.ret = 0 /\ fid \in FidsIn(tsdbFileH')]_vars

\* C30, its case: tsdbCreateFGroup(1) has returned -1 with room in the
\* directory, because f1.last was in the way; f1.head and f1.data, made
\* before the failure, are there and partition 1 is not in the directory,
\* which holds another group
C30_Witness ==
    /\ api.op = "createFGroup"
    /\ api.arg = 1
    /\ api.ret = -1
    /\ ~crashed
    /\ Len(tsdbFileH.fGroup) = 1
    /\ Len(tsdbFileH.fGroup) < tsdbFileH.maxFGroups
    /\ 1 \notin FidsIn(tsdbFileH)
    /\ << 1, ".head" >> \in DOMAIN disk
    /\ << 1, ".last" >> \in DOMAIN disk

(***************************************************************************)
(* A commit into a partition whose group holds data of an earlier commit.  *)
(* No commit of tsdbCommitToFile as it stands writes an index, so the old  *)
(* .head file is given: the group of partition 0 is in the directory and   *)
(* its .head holds the SCompInfo of one table (one block, pre).            *)
(***************************************************************************)
\* the SCompIdx arrays of the old .head: one table has old data, with or
\* without a block in the .last file
OldIndices ==
    {[t \in Tids |-> IF t = old THEN [ZeroIdx EXCEPT !.offset = 1, !.len = 1,
                                                     !.hasLast = hasLast,
                                                     !.numOfSuperBlocks = 1]
                     ELSE ZeroIdx] : old \in Tids, hasLast \in {0, 1}}

InitCarry ==
    /\ InitHandle
    /\ commit = 0
    /\ mutexMode = "excl"
    /\ tsdbFileH = [maxFGroups |-> NumTables,
                    fGroup |-> << [fileId |-> 0, opened |-> FALSE] >>]
    /\ \E pIndices \in OldIndices :
          disk = [CreateGroupFiles(<< >>, 0, TSDB_FILE_TYPE_HEAD).disk
                     EXCEPT ![<< 0, ".head" >>] =
                        [idx |-> pIndices,
                         blocks |-> << [tid |-> CHOOSE t \in Tids : pIndices[t].len # 0,
                                        pre |-> TRUE] >>]]
    /\ state = "ACTIVE"
    /\ dangling = {}
    /\ env = {TSDB_CFG_FILE_NAME, TSDB_DATA_DIR_NAME}
    /\ api = [op |-> "open", arg |-> 0, check |-> 0, ret |-> 0]
    /\ pCfg = DefaultCfg
    /\ nLife = 0
    /\ meta = AllTables
    /\ submit = << >>

SpecCarry == InitCarry /\ [][Next]_vars

\* the SCompInfo of table t in the head file f: the len entries from offset
InfoOf(f, t) == SubSeq(f.blocks, f.idx[t].offset, f.idx[t].offset + f.idx[t].len - 1)

Add32(x, y) ==
    IF x >= 0 /\ y >= 0 /\ x > INT_MAX - y THEN (x + INT_MIN) + (y + INT_MIN)
    ELSE IF x < 0 /\ y < 0 /\ x < INT_MIN - y THEN (x - INT_MIN) + (y - INT_MIN)
    ELSE x + y

\* a * n in int arithmetic, for n >= 0
RECURSIVE Mul32(_, _)
Mul32(a, n) ==
    IF n = 0 THEN 0
    ELSE LET half == Mul32(a, n \div 2)
             even == Add32(half, half)
         IN  IF n % 2 = 1 THEN Add32(even, a) ELSE even

\* a * n is outside the range of int, for n >= 1
Mul32Overflows(a, n) ==
    /\ n > 1
    /\ \/ a > INT_MAX \div n
       \/ a < -((INT_MAX \div n) + (IF INT_MAX % n = n - 1 THEN 1 ELSE 0))

\* the most days whose count of units of the precision a TSKEY holds:
\* (2^63 - 1) \div tsMsPerDay[precision], which for milliseconds is more
\* than any int
DaysInTSKEY(precision) ==
    CASE precision = TSDB_PRECISION_MILLI -> INT_MAX
      [] precision = TSDB_PRECISION_MICRO -> 106751991
      [] precision = TSDB_PRECISION_NANO -> 106751

\* lines 371-372 overflow a TSKEY: the product of line 371, or the sum of
\* line 372
KeyOverflows64(daysPerFile, precision, fileId) ==
    LET prod == Mul32(fileId, daysPerFile)
    IN  /\ precision # TSDB_PRECISION_MILLI
        /\ \/ prod > DaysInTSKEY(precision) - daysPerFile
           \/ prod < -DaysInTSKEY(precision)

\* tsdbGetKeyRangeOfFileId(daysPerFile, precision, fileId, &minKey, &maxKey)
\* when no overflow traps: [minDays, spanDays, wrapped64]; wrapped64 says
\* that the TSKEY arithmetic wrapped around, the keys being then no count
\* of days
KeyRangeOfFileId(daysPerFile, precision, fileId) ==
    [minDays |-> Mul32(fileId, daysPerFile),
     spanDays |-> daysPerFile,
     wrapped64 |-> KeyOverflows64(daysPerFile, precision, fileId)]

\* the partition ids the function is called with
RangeFids ==
    {INT_MIN, -35791395, -1, 0, 1, 2, 106751, 106752, 35791394, 35791395,
     1073741823, 1073741824, INT_MAX - 1, INT_MAX}

\* the configurations: daysPerFile at its bounds and in between, every
\* precision
RangeCfgs ==
    {[DefaultCfg EXCEPT !.daysPerFile = d, !.precision = p] :
        d \in {TSDB_MIN_DAYS_PER_FILE, 2, TSDB_MAX_DAYS_PER_FILE},
        p \in {TSDB_PRECISION_MILLI, TSDB_PRECISION_MICRO, TSDB_PRECISION_NANO}}

InitRange ==
    /\ InitHandle
    /\ InitFileH
    /\ commit = 0
    /\ mutexMode = "excl"
    /\ state = "ACTIVE"
    /\ dangling = {}
    /\ env = {TSDB_CFG_FILE_NAME, TSDB_DATA_DIR_NAME}
    /\ api = [NoCall EXCEPT !.ret = [minDays |-> 0, spanDays |-> 0, wrapped64 |-> FALSE]]
    /\ nLife = 0
    /\ meta = AllTables
    /\ submit = << >>
    /\ pCfg \in RangeCfgs

\* a call of tsdbGetKeyRangeOfFileId with the configuration of the
\* repository.  A signed overflow is undefined: the arithmetic wraps around,
\* or the build traps and the process ends.
GetKeyRange(fileId, trap) ==
    /\ ~crashed
    /\ IF trap
       THEN /\ \/ Mul32Overflows(fileId, pCfg.daysPerFile)
               \/ KeyOverflows64(pCfg.daysPerFile, pCfg.precision, fileId)
            /\ crashed' = TRUE
            /\ UNCHANGED api
       ELSE /\ api' = [op |-> "keyRange", arg |-> fileId, check |-> 0,
                       ret |-> KeyRangeOfFileId(pCfg.daysPerFile, pCfg.precision, fileId)]
            /\ UNCHANGED crashed
    /\ UNCHANGED << meta, submit, commit, mutexMode, mutex, tables, tsdbCache, tsdbFileH, disk,
                    wr, tc, task, nextId, nInserts, nTriggers, state, dangling, env,
                    pCfg, nLife >>

NextRange == \E fileId \in RangeFids, trap \in BOOLEAN : GetKeyRange(fileId, trap)

SpecRange == InitRange /\ [][NextRange]_vars

\* C31: for every fileId, daysPerFile and precision the window is
\* minKey = fileId x span, maxKey = minKey + span - 1, the product
\* fileId * daysPerFile not wrapping around; and the window of fileId + 1
\* begins one unit after maxKey.
C31_KeyRangeIsExact ==
    [][\A fileId \in RangeFids :
          (~crashed' /\ api'.op = "keyRange" /\ api'.arg = fileId) =>
             /\ ~Mul32Overflows(fileId, pCfg.daysPerFile)
             /\ api'.ret.minDays = fileId * pCfg.daysPerFile
             /\ api'.ret.spanDays = pCfg.daysPerFile
             /\ ~api'.ret.wrapped64
             /\ fileId < INT_MAX =>
                   LET next == KeyRangeOfFileId(pCfg.daysPerFile, pCfg.precision, fileId + 1)
                   IN  /\ ~next.wrapped64
                       /\ ~Overflows32(next.minDays, api'.ret.minDays)
                       /\ next.minDays - api'.ret.minDays = api'.ret.spanDays]_vars


(***************************************************************************)
(* The cursors of the commit thread.                                       *)
(***************************************************************************)
\* a commit thread that is about to run tsdbCreateTableIters (line 838):
\* it is at its start and the frozen cache generation is not NULL
BuildsCursors(n) == ~crashed /\ task[n].pc = "start" /\ ~IsNull(tsdbCache.imem)

\* C32: whenever the commit thread builds its cursors, every frozen
\* memtable (imem) that is not NULL holds at least one row, so the first
\* tSkipListIterNext succeeds and the assert(false) of tsdbCreateTableIters
\* is not reached.
C32_FrozenMemTablesHaveRows ==
    \A n \in Tasks : BuildsCursors(n) => ~IterAssertFails(tables)


(***************************************************************************)
(* The handle tsdbCreateRepo and tsdbOpenRepo return.                      *)
(***************************************************************************)
\* the step in which tsdbCreateRepo or tsdbOpenRepo returns a handle
HandleReturned ==
    /\ state = "NONE"
    /\ state' = "ACTIVE"
    /\ api'.op \in {"create", "open"}
    /\ api'.ret = 0

\* C33: right after a successful tsdbCreateRepo or tsdbOpenRepo no commit
\* is in flight: the commit flag of the handle is 0 and its tsdbFileH, which
\* the commit thread uses, is initialised, so that the first
\* tsdbTriggerCommit is accepted and its thread can run.
C33_FreshHandleHasNoCommit ==
    [][HandleReturned => (~CommitInFlight' /\ "fileH" \notin dangling')]_vars

====
